---- MODULE Spec2Model ----
(***************************************************************************)
(* Utilabot (src/bot.py): the owner-scoped task store (notes, reminders,   *)
(* weather subscriptions), its per-owner lowest-free-ID allocator, and the *)
(* two polling schedulers (reminders_scheduler, weather_scheduler) that    *)
(* dispatch due records.                                                   *)
(*                                                                         *)
(* Time is an integer count of seconds since an epoch, in UTC.  The wall   *)
(* clock moves through the instants of Instants.  The Chicago zone is the  *)
(* fixed offset of six hours behind UTC (standard time).                   *)
(*                                                                         *)
(* Coroutines run on one event loop: everything between two awaits is one  *)
(* atomic action.  The Store methods are synchronous, so each is atomic.   *)
(*                                                                         *)
(* In src/bot.py the methods from _lowest_free_id_for_user to              *)
(* remove_autodelete (lines 393-681) are indented under the module-level   *)
(* get_note, after its return.  They are modelled here as the methods of   *)
(* Store that every call site (store.add_reminder, ...) takes them to be.  *)
(***************************************************************************)
EXTENDS Integers, Sequences, FiniteSets, TLC

\* ---------------------------------------------------------------- bounds
Owners == {1, 2}
\* rows the store may hold, over all its tables
MaxRows == 2

\* ------------------------------------------------------ program constants
SecondsPerMinute == 60
MinutesPerHour == 60
HoursPerDay == 24
DaysPerWeek == 7
RetryMinutes == 5
DefaultWeeklyDays == 7
ChicagoUtcOffsetHours == 6
\* the periods of the two scheduler loops, in seconds
REMINDER_TICK_SECONDS == 10
WEATHER_TICK_SECONDS == 60

MinuteLen == SecondsPerMinute
HourLen == MinutesPerHour * MinuteLen
DayLen == HoursPerDay * HourLen

\* 07:00:00 Chicago time on day 10 of the epoch
StartTime == 10 * DayLen + 13 * HourLen
\* The instants the wall clock shows: 07:00:00, 07:01:00 and, three days
\* later, 07:00:30.
Instants == {StartTime, StartTime + 60, StartTime + 3 * DayLen + 30}
\* The times of day (hh, mi) a subscription asks for.
SubTimes == {<<7, 1>>}

\* Python None / SQL NULL in an integer column.
NONE == 0 - 1
\* The strings "" and "None" where an integer is expected.
EmptyStr == 0 - 2
NoneStr == 0 - 3
\* The channels commands are issued in (inter.channel_id).
Channels == {7}
Texts == {"a"}
Zips == {"60601"}
Cadences == {"daily", "weekly"}
Ids == 1 .. MaxRows

VARIABLES
    notes,          \* table notes(user_id, id, text)
    reminders,      \* table reminders(user_id, id, channel_id, dm, text, due_utc)
    weather_subs,   \* table weather_subs(user_id, id, zip, cadence, hh, mi, weekly_days, next_run_utc)
    now,            \* the wall clock, in ticks (UTC)
    ret,            \* the last Store call: its name, arguments and return value
    rem_task,       \* reminders_scheduler: loop tasks launched by on_ready
    wx_task,        \* weather_scheduler: loop tasks launched by on_ready
    rem_tick,       \* reminders_scheduler: the locals of the tick in flight
    wx_tick,        \* weather_scheduler: the locals of the tick in flight
    json_file,      \* the legacy JSON file at DATA_PATH
    wallets,        \* table wallets(user_id, balance): the user ids it holds
    balance,        \* table wallets: the balance column (0 for a user without a row)
    games,          \* the wager games that wait for their player (awaiting view.wait())
    autodelete,     \* table autodelete(channel_id, seconds)
    probe           \* the last call of a pure helper: its arguments and result

tables == <<notes, reminders, weather_subs>>
vars ==
    <<notes, reminders, weather_subs, now, ret, rem_task, wx_task, rem_tick, wx_tick,
      json_file, wallets, balance, games, autodelete, probe>>

\* No file at DATA_PATH (os.path.exists is false), and no helper called yet.
NoFile == [state |-> "absent", data |-> << >>]
NoProbe == [fn |-> "none"]

\* ------------------------------------------------------------ timestamps
\* datetime.isoformat() of an aware datetime: the wall-clock reading in the
\* datetime's own zone, followed by that zone's offset.
isoformat(instant, off) == [kind |-> "iso", wall |-> instant + off, off |-> off]
\* A NULL column, and the text str(None) the JSON migration can store.
NullText == [kind |-> "null", wall |-> 0, off |-> 0]
NoneText == [kind |-> "None", wall |-> 0, off |-> 0]
\* datetime.fromisoformat(s) raises on NULL (TypeError) and on "None" (ValueError).
parses(s) == s.kind = "iso"
\* datetime.fromisoformat(s).replace(tzinfo=timezone.utc): the wall-clock
\* reading is kept and declared to be UTC; the offset in the text is dropped.
parse_as_utc(s) == s.wall

\* _chicago_tz_for: the zone's UTC offset (fixed in this model).
_chicago_tz_for == 0 - ChicagoUtcOffsetHours * HourLen
\* datetime.now(tz) and dt.astimezone(timezone.utc) for that zone.
to_local(utc) == utc + _chicago_tz_for
\* astimezone(timezone.utc) left out: the local reading is written as it is.
local_reading_kept(local) == local
to_utc(local) == local - _chicago_tz_for

\* now_local.replace(hour=hh, minute=mi, second=0, microsecond=0)
replace_hm(now_local, hh, mi) ==
    (now_local \div DayLen) * DayLen + hh * HourLen + mi * MinuteLen

\* _next_local_run advancing the target only when it is before now_local.
next_local_run_not_before(now_local, hh, mi, cadence) ==
    LET target == replace_hm(now_local, hh, mi) IN
    IF target < now_local
    THEN target + (IF cadence = "daily" THEN 1 ELSE DaysPerWeek) * DayLen
    ELSE target

_next_local_run(now_local, hh, mi, cadence) ==
    LET target == replace_hm(now_local, hh, mi) IN
    IF target <= now_local
    THEN target + (IF cadence = "daily" THEN 1 ELSE DaysPerWeek) * DayLen
    ELSE target

\* ------------------------------------------------------------- the Store
\* The ids of the rows of `table` owned by user_id, ascending (ORDER BY id).
RECURSIVE SortedIds(_)
SortedIds(S) ==
    IF S = {} THEN << >>
    ELSE LET m == CHOOSE x \in S : \A y \in S : x <= y
         IN <<m>> \o SortedIds(S \ {m})

RECURSIVE ScanFree(_, _, _)
ScanFree(used, k, i) ==
    IF k > Len(used) THEN i
    ELSE IF used[k] = i THEN ScanFree(used, k + 1, i + 1)
    ELSE IF used[k] > i THEN i
    ELSE ScanFree(used, k + 1, i)

\* A global counter in place of the scan: one more than the owner's highest id.
next_id_after_highest(table, user_id) ==
    LET ids == {r.id : r \in {x \in table : x.user_id = user_id}} IN
    IF ids = {} THEN 1 ELSE (CHOOSE m \in ids : \A k \in ids : k <= m) + 1

_lowest_free_id_for_user(table, user_id) ==
    ScanFree(SortedIds({r.id : r \in {x \in table : x.user_id = user_id}}), 1, 1)

\* PRIMARY KEY(user_id, id): an INSERT of a held key raises IntegrityError.
PKHeld(table, user_id, id) == \E r \in table : r.user_id = user_id /\ r.id = id

StoreRows == Cardinality(notes) + Cardinality(reminders) + Cardinality(weather_subs)

\* What a Store method does: the rows of its table after the call, and what it
\* returns (an add returns the id; a delete or update returns val).
Out(rows, id, val) == [rows |-> rows, id |-> id, val |-> val]

add_note(user_id, text) ==
    LET nid == _lowest_free_id_for_user(notes, user_id) IN
    IF PKHeld(notes, user_id, nid)
    THEN Out(notes, nid, "IntegrityError")
    ELSE Out(notes \cup {[user_id |-> user_id, id |-> nid, text |-> text]}, nid, "id")

\* cur.rowcount >= 0
rowcount_not_negative(hit) == IF Cardinality(hit) >= 0 THEN "True" ELSE "False"

\* cur.rowcount > 0
rowcount_positive(hit) == IF Cardinality(hit) > 0 THEN "True" ELSE "False"

\* A DELETE FROM notes that matches on the id alone.
delete_note_any_owner(user_id, note_id) ==
    LET hit == {r \in notes : r.id = note_id} IN
    Out(notes \ hit, note_id, rowcount_positive(hit))

delete_note(user_id, note_id) ==
    LET hit == {r \in notes : r.user_id = user_id /\ r.id = note_id} IN
    Out(notes \ hit, note_id, rowcount_positive(hit))

\* None if rem.get("channel_id") in (None, "", "None") else int(rem["channel_id"])
channel_column(c) == IF c \in {NONE, EmptyStr, NoneStr} THEN NONE ELSE c
\* A dm column that is never set.
dm_column_unset(dm) == 0

\* 1 if rem.get("dm") else 0
dm_column(dm) == IF dm THEN 1 ELSE 0

add_reminder(rem) ==
    LET uid == rem.user_id
        rid == _lowest_free_id_for_user(reminders, uid)
    IN
    IF PKHeld(reminders, uid, rid)
    THEN Out(reminders, rid, "IntegrityError")
    ELSE Out(reminders \cup
                {[user_id |-> uid, id |-> rid, channel_id |-> channel_column(rem.channel_id),
                  dm |-> dm_column(rem.dm), text |-> rem.text, due_utc |-> rem.due_utc]},
             rid, "id")

\* The dict list_reminders builds of a row.
reminder_dict(r) ==
    [user_id |-> r.user_id, id |-> r.id, channel_id |-> r.channel_id,
     dm |-> (r.dm # 0), text |-> r.text, due_utc |-> r.due_utc]

\* ORDER BY user_id, id
RowKey(r) == r.user_id * (MaxRows + 2) + r.id

RECURSIVE SortRows(_)
SortRows(S) ==
    IF S = {} THEN << >>
    ELSE LET m == CHOOSE x \in S : \A y \in S : RowKey(x) <= RowKey(y)
         IN <<m>> \o SortRows(S \ {m})

\* list_reminders(user_id), with user_id = NONE for all owners.
list_reminders(user_id) ==
    LET rows == IF user_id = NONE THEN reminders
                ELSE {r \in reminders : r.user_id = user_id}
        s == SortRows(rows)
    IN [k \in 1 .. Len(s) |-> reminder_dict(s[k])]

\* A DELETE that matches on the id alone.
cancel_reminder_any_owner(rid, requester_id, is_mod) ==
    LET hit == {r \in reminders : r.id = rid} IN
    Out(reminders \ hit, rid, rowcount_positive(hit))

cancel_reminder(rid, requester_id, is_mod) ==
    LET hit == IF is_mod
               THEN {r \in reminders : r.user_id = requester_id /\ r.id = rid}
               ELSE {r \in reminders : r.user_id = requester_id /\ r.id = rid}
    IN Out(reminders \ hit, rid, rowcount_positive(hit))

add_weather_sub(sub) ==
    LET uid == sub.user_id
        sid == _lowest_free_id_for_user(weather_subs, uid)
    IN
    IF PKHeld(weather_subs, uid, sid)
    THEN Out(weather_subs, sid, "IntegrityError")
    ELSE Out(weather_subs \cup
                {[user_id |-> uid, id |-> sid, zip |-> sub.zip, cadence |-> sub.cadence,
                  hh |-> sub.hh, mi |-> sub.mi, weekly_days |-> sub.weekly_days,
                  next_run_utc |-> sub.next_run_utc]},
             sid, "id")

\* list_weather_subs(user_id), with user_id = NONE for all owners.
list_weather_subs(user_id) ==
    LET rows == IF user_id = NONE THEN weather_subs
                ELSE {r \in weather_subs : r.user_id = user_id}
        s == SortRows(rows)
    IN [k \in 1 .. Len(s) |-> s[k]]

remove_weather_sub(sid, requester_id) ==
    LET hit == {r \in weather_subs : r.user_id = requester_id /\ r.id = sid} IN
    Out(weather_subs \ hit, sid, rowcount_positive(hit))

\* update_weather_sub(sid, user_id=..., next_run_utc=...); user_id = 0 stands for
\* a call without the user_id keyword (updates.pop("user_id", 0)).
update_weather_sub(sid, user_id, next_run_utc) ==
    IF user_id = 0
    THEN Out(weather_subs, sid, "False")
    ELSE Out({IF r.user_id = user_id /\ r.id = sid
              THEN [r EXCEPT !.next_run_utc = next_run_utc] ELSE r : r \in weather_subs},
             sid, "True")

\* ---------------------------------------------- JSON -> SQLite migration
\* The database as _maybe_migrate_from_json sees it.
Db(w, n, r, s) == [wallets |-> w, notes |-> n, reminders |-> r, weather_subs |-> s]

\* str(x.get("due_utc")): the text of the due time, "None" when it is missing.
str_text(x) == IF x = NullText THEN NoneText ELSE x
\* The order of the keys (str(due_utc), str(text)): ISO texts in UTC sort as
\* their times do, and before "None"; the texts of the legacy files in their
\* order as strings.
LegacyTexts == <<"a", "b">>
TextRank(t) == CHOOSE k \in 1 .. Len(LegacyTexts) : LegacyTexts[k] = t
DueTextBefore(a, b) ==
    /\ parses(str_text(a.due_utc))
    /\ \/ ~parses(str_text(b.due_utc))
       \/ str_text(a.due_utc).wall < str_text(b.due_utc).wall
DueBefore(a, b) ==
    \/ DueTextBefore(a, b)
    \/ /\ ~DueTextBefore(b, a)
       /\ TextRank(a.text) < TextRank(b.text)
\* The order of the keys (zip, hh, mi) of subscriptions of one zip.
SubBefore(a, b) == a.hh < b.hh \/ (a.hh = b.hh /\ a.mi < b.mi)

\* items.sort(key=...): the stable sort of a list of reminders or of
\* subscriptions, KeyBefore being the strict order of their keys.
KeyBefore(a, b) == IF "due_utc" \in DOMAIN a THEN DueBefore(a, b) ELSE SubBefore(a, b)
\* A migration that numbers the records of an owner in the order of the file.
file_order(s) == s

Rank(s, k) ==
    Cardinality({j \in 1 .. Len(s) :
                    KeyBefore(s[j], s[k]) \/ (~KeyBefore(s[k], s[j]) /\ j < k)}) + 1
StableSort(s) ==
    [p \in 1 .. Len(s) |-> s[CHOOSE k \in 1 .. Len(s) : Rank(s, k) = p]]

\* by_user.setdefault(uid, []).append(r): the owners in order of appearance,
\* and the items of one owner.
RECURSIVE UsersInOrder(_)
UsersInOrder(s) ==
    IF s = << >> THEN << >>
    ELSE LET rest == UsersInOrder(SelectSeq(Tail(s), LAMBDA r : r.user_id # Head(s).user_id))
         IN <<Head(s).user_id>> \o rest
ItemsOf(s, uid) == SelectSeq(s, LAMBDA r : r.user_id = uid)

RECURSIVE Flatten(_)
Flatten(ss) == IF ss = << >> THEN << >> ELSE Head(ss) \o Flatten(Tail(ss))

\* The INSERTs of the migration, in the order the code issues them.
WalletInserts(data) ==
    [k \in 1 .. Len(data.wallets) |-> [table |-> "wallets", row |-> data.wallets[k]]]
NoteInserts(data) ==
    Flatten([u \in 1 .. Len(data.notes) |->
                [k \in 1 .. Len(data.notes[u].texts) |->
                    [table |-> "notes",
                     row |-> [user_id |-> data.notes[u].user_id, id |-> k,
                              text |-> data.notes[u].texts[k]]]]])
ReminderInserts(data) ==
    LET users == UsersInOrder(data.reminders) IN
    Flatten([u \in 1 .. Len(users) |->
                LET items == StableSort(ItemsOf(data.reminders, users[u])) IN
                [k \in 1 .. Len(items) |->
                    [table |-> "reminders",
                     row |-> [user_id |-> users[u], id |-> k,
                              channel_id |-> IF items[k].channel_id = NONE \/ items[k].channel_id = 0
                                             THEN NONE ELSE items[k].channel_id,
                              dm |-> IF items[k].dm THEN 1 ELSE 0,
                              text |-> items[k].text,
                              due_utc |-> str_text(items[k].due_utc)]]]])
\* uid = int(s.get("user_id")) raises TypeError on a subscription without
\* user_id while the subscriptions are grouped, before any of them is inserted.
SubInserts(data) ==
    LET users == UsersInOrder(data.subs) IN
    IF \E k \in 1 .. Len(data.subs) : data.subs[k].user_id = NONE
    THEN <<[table |-> "raise", row |-> "TypeError"]>>
    ELSE
    Flatten([u \in 1 .. Len(users) |->
                LET items == StableSort(ItemsOf(data.subs, users[u])) IN
                [k \in 1 .. Len(items) |->
                    [table |-> "weather_subs",
                     row |-> [user_id |-> users[u], id |-> k, zip |-> items[k].zip,
                              cadence |-> items[k].cadence, hh |-> items[k].hh,
                              mi |-> items[k].mi, weekly_days |-> items[k].weekly_days,
                              next_run_utc |-> items[k].next_run_utc]]]])

\* One INSERT: the row is added, or its primary key is held and the statement
\* raises IntegrityError.
KeyHeld(db, ins) ==
    IF ins.table = "wallets" THEN ins.row \in db.wallets
    ELSE PKHeld(db[ins.table], ins.row.user_id, ins.row.id)

\* The INSERTs run in autocommit, one by one, up to the first that raises:
\* what was inserted before it stays in the database.
RECURSIVE RunInserts(_, _)
RunInserts(db, ins) ==
    IF ins = << >> THEN [db |-> db, val |-> "migrated"]
    ELSE IF Head(ins).table = "raise" THEN [db |-> db, val |-> Head(ins).row]
    ELSE IF KeyHeld(db, Head(ins)) THEN [db |-> db, val |-> "IntegrityError"]
    ELSE RunInserts([db EXCEPT ![Head(ins).table] = @ \cup {Head(ins).row}], Tail(ins))

\* A migration that leaves the legacy file under its name.
left_in_place(file) == file

\* os.replace(self.json_path, self.json_path + ".migrated.bak")
Renamed(file) == [file EXCEPT !.state = "renamed"]

\* A migration that does not look at the wallets table before it imports.
migrate_without_wallets_check(db, file) ==
    IF file.state \in {"absent", "renamed"} THEN [db |-> db, file |-> file, val |-> "no file"]
    ELSE IF file.state = "corrupt" THEN [db |-> db, file |-> file, val |-> "unparsed"]
    ELSE LET m == RunInserts(db, WalletInserts(file.data) \o NoteInserts(file.data)
                                     \o ReminderInserts(file.data) \o SubInserts(file.data))
         IN IF m.val # "migrated"
            THEN [db |-> m.db, file |-> file, val |-> m.val]
            ELSE [db |-> m.db, file |-> Renamed(file), val |-> m.val]

\* A migration that takes a file it cannot parse for a legacy file without
\* records.
migrate_unparsed_as_empty(db, file) ==
    IF file.state \in {"absent", "renamed"} THEN [db |-> db, file |-> file, val |-> "no file"]
    ELSE IF db.wallets # {} THEN [db |-> db, file |-> file, val |-> "skipped"]
    ELSE LET ins == IF file.state = "corrupt" THEN << >>
                    ELSE WalletInserts(file.data) \o NoteInserts(file.data)
                            \o ReminderInserts(file.data) \o SubInserts(file.data)
             m == RunInserts(db, ins)
         IN IF m.val # "migrated"
            THEN [db |-> m.db, file |-> file, val |-> m.val]
            ELSE [db |-> m.db, file |-> Renamed(file), val |-> m.val]

_maybe_migrate_from_json(db, file) ==
    IF file.state \in {"absent", "renamed"} THEN [db |-> db, file |-> file, val |-> "no file"]
    ELSE IF file.state = "corrupt" THEN [db |-> db, file |-> file, val |-> "unparsed"]
    ELSE IF db.wallets # {} THEN [db |-> db, file |-> file, val |-> "skipped"]
    ELSE LET m == RunInserts(db, WalletInserts(file.data) \o NoteInserts(file.data)
                                     \o ReminderInserts(file.data) \o SubInserts(file.data))
         IN IF m.val # "migrated"
            THEN [db |-> m.db, file |-> file, val |-> m.val]
            ELSE [db |-> m.db, file |-> Renamed(file), val |-> m.val]

\* ------------------------------------------------------ command handlers
\* What the Store returned to the last command handler (its reply to the user
\* follows from it).  rep says that the command before it made the same call
\* with the same arguments and got True.
Reply(op, uid, id, val) ==
    [op |-> op, uid |-> uid, id |-> id, val |-> val,
     rep |-> (ret.op = op /\ ret.uid = uid /\ ret.id = id /\ ret.val = "True")]

note_add(user, text) ==
    LET c == add_note(user, text) IN
    /\ notes' = c.rows
    /\ ret' = Reply("add_note", user, c.id, c.val)
    /\ UNCHANGED <<reminders, weather_subs, now, rem_task, wx_task, rem_tick, wx_tick,
                 json_file, wallets, balance, games, autodelete, probe>>

\* /notes with a delete_index
notes_delete(user, delete_index) ==
    LET c == delete_note(user, delete_index) IN
    /\ notes' = c.rows
    /\ ret' = Reply("delete_note", user, delete_index, c.val)
    /\ UNCHANGED <<reminders, weather_subs, now, rem_task, wx_task, rem_tick, wx_tick,
                 json_file, wallets, balance, games, autodelete, probe>>

remind_in(user, channel, minutes, message, dm) ==
    LET due_utc == now + minutes * MinuteLen
        c == add_reminder([user_id |-> user,
                           channel_id |-> IF dm THEN NONE ELSE channel,
                           dm |-> dm, text |-> message, due_utc |-> isoformat(due_utc, 0)])
    IN
    /\ reminders' = c.rows
    /\ ret' = Reply("add_reminder", user, c.id, c.val)
    /\ UNCHANGED <<notes, weather_subs, now, rem_task, wx_task, rem_tick, wx_tick,
                 json_file, wallets, balance, games, autodelete, probe>>

\* is_mod: the requester holds manage_messages in the channel of the command
remind_cancel(user, reminder_id, is_mod) ==
    LET c == cancel_reminder(reminder_id, user, is_mod) IN
    /\ reminders' = c.rows
    /\ ret' = Reply("cancel_reminder", user, reminder_id, c.val)
    /\ UNCHANGED <<notes, weather_subs, now, rem_task, wx_task, rem_tick, wx_tick,
                 json_file, wallets, balance, games, autodelete, probe>>

weather_subscribe(user, hh, mi, cadence, z, weekly_days) ==
    LET now_local == to_local(now)
        first_local == _next_local_run(now_local, hh, mi, cadence)
        next_run_utc == to_utc(first_local)
        c == add_weather_sub([user_id |-> user, zip |-> z, cadence |-> cadence, hh |-> hh,
                              mi |-> mi, weekly_days |-> weekly_days,
                              next_run_utc |-> isoformat(next_run_utc, 0)])
    IN
    /\ weather_subs' = c.rows
    /\ ret' = Reply("add_weather_sub", user, c.id, c.val)
    /\ UNCHANGED <<notes, reminders, now, rem_task, wx_task, rem_tick, wx_tick,
                 json_file, wallets, balance, games, autodelete, probe>>

weather_unsubscribe(user, sub_id) ==
    LET c == remove_weather_sub(sub_id, user) IN
    /\ weather_subs' = c.rows
    /\ ret' = Reply("remove_weather_sub", user, sub_id, c.val)
    /\ UNCHANGED <<notes, reminders, now, rem_task, wx_task, rem_tick, wx_tick,
                 json_file, wallets, balance, games, autodelete, probe>>

\* ------------------------------------------------------------ the wallets
\* The credits in circulation and the wager games open at once are bounded.
MaxCredits == 2
MaxGames == 2
Amounts == 1 .. MaxCredits

\* The wallets table as the Store methods see it.
WalletTable == [rows |-> wallets, balance |-> balance]

\* get_balance: int(row[0]) if row else 0.  A pay that takes every sender for
\* solvent reads the limit of its amount instead.
balance_not_read(w, user_id) == MaxCredits
get_balance(w, user_id) == IF user_id \in w.rows THEN w.balance[user_id] ELSE 0

\* add_balance: INSERT ... ON CONFLICT(user_id) DO UPDATE SET balance = balance + amount
add_balance(w, user_id, amount) ==
    [rows |-> w.rows \cup {user_id},
     balance |-> [w.balance EXCEPT ![user_id] = (IF user_id \in w.rows THEN @ ELSE 0) + amount]]

RECURSIVE SumOf(_, _)
SumOf(f, S) == IF S = {} THEN 0
               ELSE LET u == CHOOSE x \in S : TRUE IN f[u] + SumOf(f, S \ {u})
TotalCredits == SumOf(balance, Owners)

\* /work: the pay of a shift is credited (the cooldown is left out; the
\* credits in circulation stay within MaxCredits).
work(user, amount) ==
    /\ TotalCredits + amount <= MaxCredits
    /\ LET w == add_balance(WalletTable, user, amount) IN
       /\ wallets' = w.rows
       /\ balance' = w.balance
    /\ ret' = Reply("work", user, amount, "paid")
    /\ UNCHANGED <<notes, reminders, weather_subs, now, rem_task, wx_task, rem_tick, wx_tick,
                 json_file, games, autodelete, probe>>

\* /pay: no await between get_balance and the second add_balance.
pay(user, to, amount) ==
    /\ IF to = user \/ get_balance(WalletTable, user) < amount
       THEN /\ UNCHANGED <<wallets, balance>>
            /\ ret' = Reply("pay", user, to, "refused")
       ELSE LET w == add_balance(add_balance(WalletTable, user, 0 - amount), to, amount) IN
            /\ wallets' = w.rows
            /\ balance' = w.balance
            /\ ret' = Reply("pay", user, to, "sent")
    /\ UNCHANGED <<notes, reminders, weather_subs, now, rem_task, wx_task, rem_tick, wx_tick,
                 json_file, games, autodelete, probe>>

\* /highlow, up to `await view.wait()`: the bet is compared with the balance,
\* nothing is debited, and the game waits for the player's guess.
highlow(user, bet) ==
    /\ Cardinality(games) < MaxGames
    /\ IF get_balance(WalletTable, user) < bet
       THEN /\ games' = games
            /\ ret' = Reply("highlow", user, bet, "refused")
       ELSE /\ games' = games \cup {[user_id |-> user, bet |-> bet,
                                     n |-> CHOOSE k \in 1 .. MaxGames :
                                              \A g \in games : g.n # k]}
            /\ ret' = Reply("highlow", user, bet, "open")
    /\ UNCHANGED <<notes, reminders, weather_subs, now, rem_task, wx_task, rem_tick, wx_tick,
                 json_file, wallets, balance, autodelete, probe>>

\* /highlow, after view.wait(): the second card decides; a win credits the
\* bet, a loss debits it, a push or no guess changes nothing.
highlow_done(g, result) ==
    /\ g \in games
    /\ result = "win" => TotalCredits + g.bet <= MaxCredits
    /\ LET w == IF result = "win" THEN add_balance(WalletTable, g.user_id, g.bet)
                ELSE IF result = "loss" THEN add_balance(WalletTable, g.user_id, 0 - g.bet)
                ELSE WalletTable
       IN /\ wallets' = w.rows
          /\ balance' = w.balance
    /\ games' = games \ {g}
    /\ ret' = Reply("highlow_done", g.user_id, g.bet, result)
    /\ UNCHANGED <<notes, reminders, weather_subs, now, rem_task, wx_task, rem_tick, wx_tick,
                 json_file, autodelete, probe>>

\* /weather_subscriptions: a subscription of the caller needs a new due time
\* when its next_run_utc is missing, is "None", does not parse or is not after
\* now.
needs(s) == ~parses(s.next_run_utc) \/ parse_as_utc(s.next_run_utc) <= now

\* The handler has no await between list_weather_subs and its last
\* update_weather_sub; it calls update_weather_sub without user_id.  ret.id is
\* the number of subscriptions it found in need of a new due time.
weather_subscriptions(user) ==
    LET items == list_weather_subs(user)
        stale == {k \in 1 .. Len(items) : needs(items[k])}
        nxt(k) == to_utc(_next_local_run(to_local(now), items[k].hh, items[k].mi,
                                         items[k].cadence))
        after(r) == IF \E k \in stale : items[k].id = r.id /\ items[k].user_id = r.user_id
                    THEN LET k == CHOOSE j \in stale : items[j].id = r.id
                                                         /\ items[j].user_id = r.user_id
                             rows == update_weather_sub(r.id, 0, isoformat(nxt(k), 0)).rows
                         IN CHOOSE x \in rows : x.user_id = r.user_id /\ x.id = r.id
                    ELSE r
    IN
    /\ weather_subs' = {after(r) : r \in weather_subs}
    /\ ret' = Reply("list_weather_subs", user, Cardinality(stale),
                    IF Len(items) = 0 THEN "none" ELSE "listed")
    /\ UNCHANGED <<notes, reminders, now, rem_task, wx_task, rem_tick, wx_tick,
                 json_file, wallets, balance, games, autodelete, probe>>

\* ------------------------------------------- commands with text arguments
\* A text argument is what the command's regular expression sees in it.
\* A time: match says that one of the two patterns of _parse_time matches,
\* hh and mi are the integers of its digit groups, ampm its suffix ("" when
\* there is none).
TimeText(match, hh, mi, ampm) == [match |-> match, hh |-> hh, mi |-> mi, ampm |-> ampm]
\* A date: the groups of _parse_date's patterns.
DateText(match, mm, dd, yyyy) == [match |-> match, mm |-> mm, dd |-> dd, yyyy |-> yyyy]
\* An offset: given is FALSE when the argument is omitted or empty; sign, oh
\* and om are the groups of _parse_offset's pattern.
OffsetText(given, match, sign, oh, om) ==
    [given |-> given, match |-> match, sign |-> sign, oh |-> oh, om |-> om]

Raised == [ok |-> FALSE]

_parse_date(date_str) ==
    IF ~date_str.match THEN Raised
    ELSE [ok |-> TRUE, yyyy |-> date_str.yyyy, mm |-> date_str.mm, dd |-> date_str.dd]

_parse_time(time_str) ==
    IF ~time_str.match THEN Raised
    ELSE LET hh == IF time_str.ampm # ""
                   THEN (time_str.hh % 12) + (IF time_str.ampm = "pm" THEN 12 ELSE 0)
                   ELSE time_str.hh
         IN IF 0 <= hh /\ hh <= 23 /\ 0 <= time_str.mi /\ time_str.mi <= 59
            THEN [ok |-> TRUE, hh |-> hh, mi |-> time_str.mi]
            ELSE Raised

\* timezone(delta) raises unless delta is strictly between -24 h and +24 h.
\* off = NONE stands for the None the function returns without an argument.
_parse_offset(s) ==
    IF ~s.given THEN [ok |-> TRUE, off |-> NONE]
    ELSE IF ~s.match THEN Raised
    ELSE LET delta == s.sign * (s.oh * HourLen + s.om * MinuteLen) IN
         IF 0 - DayLen < delta /\ delta < DayLen THEN [ok |-> TRUE, off |-> delta]
         ELSE Raised

\* datetime(yyyy, mm, dd, hh, mi): the wall-clock reading in seconds since
\* the first day of EpochYear, which is day 0 of the model's clock; it raises
\* for a month or a day the calendar does not have (years without leap day).
EpochYear == 2025
DaysInMonth == <<31, 28, 31, 30, 31, 30, 31, 31, 30, 31, 30, 31>>
RECURSIVE DaysBeforeMonth(_)
DaysBeforeMonth(mm) == IF mm = 1 THEN 0 ELSE DaysBeforeMonth(mm - 1) + DaysInMonth[mm - 1]
datetime(yyyy, mm, dd, hh, mi) ==
    IF mm \in 1 .. 12 /\ dd >= 1 /\ dd <= DaysInMonth[mm] /\ yyyy >= EpochYear
    THEN [ok |-> TRUE,
          wall |-> ((yyyy - EpochYear) * 365 + DaysBeforeMonth(mm) + dd - 1) * DayLen
                      + hh * HourLen + mi * MinuteLen]
    ELSE Raised

\* The handler's `except Exception as e`, or a return before the Store is
\* called: a message is sent and nothing is stored.
Refused(op, user, why) ==
    /\ ret' = Reply(op, user, 0, why)
    /\ UNCHANGED <<notes, reminders, weather_subs, now, rem_task, wx_task, rem_tick, wx_tick,
                 json_file, wallets, balance, games, autodelete, probe>>

PastMarginSeconds == 5

remind_at(user, channel, date, time, message, tz_offset, dm) ==
    LET d == _parse_date(date)
        t == _parse_time(time)
        o == _parse_offset(tz_offset)
    IN
    IF ~d.ok \/ ~t.ok \/ ~o.ok THEN Refused("remind_at", user, "ValueError")
    ELSE LET tz == IF o.off # NONE THEN o.off ELSE _chicago_tz_for
             local_dt == datetime(d.yyyy, d.mm, d.dd, t.hh, t.mi)
         IN IF ~local_dt.ok THEN Refused("remind_at", user, "ValueError")
            ELSE LET due_utc == local_dt.wall - tz IN
                 IF due_utc <= now + PastMarginSeconds
                 THEN Refused("remind_at", user, "past")
                 ELSE LET c == add_reminder([user_id |-> user,
                                             channel_id |-> IF dm THEN NONE ELSE channel,
                                             dm |-> dm, text |-> message,
                                             due_utc |-> isoformat(due_utc, 0)])
                      IN /\ reminders' = c.rows
                         /\ ret' = Reply("add_reminder", user, c.id, c.val)
                         /\ UNCHANGED <<notes, weather_subs, now, rem_task, wx_task,
                                        rem_tick, wx_tick, json_file, wallets, balance, games, autodelete,
                                        probe>>

\* re.sub(r"[^0-9]", "", zip): the digits of the argument, a text being the
\* sequence of its characters; without the argument, the saved ZIP of the
\* user, and no ZIP is saved in this model (get_user_zip returns None).
Digits == {"0", "1", "2", "3", "4", "5", "6", "7", "8", "9"}
IsDigit(ch) == ch \in Digits
NoZip == << >>
ZipLen == 5

weather_subscribe_text(user, time, cadence, zip, weekly_days) ==
    LET t == _parse_time(time)
        z == IF zip # NoZip THEN SelectSeq(zip, IsDigit) ELSE NoZip
    IN
    IF ~t.ok THEN Refused("weather_subscribe", user, "ValueError")
    ELSE IF Len(z) # ZipLen THEN Refused("weather_subscribe", user, "no zip")
    ELSE weather_subscribe(user, t.hh, t.mi, cadence, z, weekly_days)

\* Store.set_autodelete: INSERT ... ON CONFLICT(channel_id) DO UPDATE
set_autodelete(channel_id, seconds) ==
    {a \in autodelete : a.channel_id # channel_id}
        \cup {[channel_id |-> channel_id, seconds |-> seconds]}

\* A duration: int_ok says that int() accepts the text before the unit, n is
\* its value, unit is the suffix "s" or "m" ("" when there is none).
DurationText(int_ok, n, unit) == [int_ok |-> int_ok, n |-> n, unit |-> unit]
AutodeleteMinSeconds == 5
AutodeleteMaxSeconds == 86400

\* autodelete_set in a text channel
autodelete_set(user, channel, duration) ==
    IF ~duration.int_ok THEN Refused("autodelete_set", user, "format")
    ELSE LET seconds == IF duration.unit = "s" THEN duration.n
                        ELSE duration.n * SecondsPerMinute
         IN IF seconds < AutodeleteMinSeconds \/ seconds > AutodeleteMaxSeconds
            THEN Refused("autodelete_set", user, "range")
            ELSE /\ autodelete' = set_autodelete(channel, seconds)
                 /\ ret' = Reply("set_autodelete", user, channel, "None")
                 /\ UNCHANGED <<notes, reminders, weather_subs, now, rem_task, wx_task,
                                rem_tick, wx_tick, json_file, wallets, balance, games, probe>>

\* ------------------------------------------------------------ schedulers
\* The locals of a tick; n counts the ticks of the loop that are in flight, and
\* aborted says that the last tick left its scan through `except Exception`.
IdleTick(n) ==
    [pc |-> "idle", now |-> 0, items |-> << >>, i |-> 0, sent |-> << >>, n |-> n,
     aborted |-> FALSE]

\* tasks.Loop.is_running()
is_running(task) == task > 0

\* tasks.loop: a launched task runs `await coro(); await sleep(interval)` in
\* turn, so each launched task has at most one tick in flight.
LoopMayFire(task, tick) == tick.n < task

\* on_ready without the is_running() guards: every call launches the loops.
on_ready_start_again ==
    /\ rem_task' = rem_task + 1
    /\ wx_task' = wx_task + 1
    /\ UNCHANGED <<notes, reminders, weather_subs, now, ret, rem_tick, wx_tick,
                 json_file, wallets, balance, games, autodelete, probe>>

on_ready ==
    /\ rem_task' = IF ~is_running(rem_task) THEN rem_task + 1 ELSE rem_task
    /\ wx_task' = IF ~is_running(wx_task) THEN wx_task + 1 ELSE wx_task
    /\ UNCHANGED <<notes, reminders, weather_subs, now, ret, rem_tick, wx_tick,
                 json_file, wallets, balance, games, autodelete, probe>>

\* The scan `for r in items` from position i up to its next await: the index
\* of the next due item, 0 when the list is exhausted, NONE when a due time
\* does not parse (the exception leaves the loop for the outer except).
RECURSIVE rem_scan(_, _, _)
rem_scan(items, i, now_utc) ==
    IF i > Len(items) THEN 0
    ELSE IF ~parses(items[i].due_utc) THEN NONE
    ELSE IF parse_as_utc(items[i].due_utc) <= now_utc THEN i
    ELSE rem_scan(items, i + 1, now_utc)

RECURSIVE wx_scan(_, _, _)
wx_scan(subs, i, now_utc) ==
    IF i > Len(subs) THEN 0
    ELSE IF ~parses(subs[i].next_run_utc) THEN NONE
    ELSE IF parse_as_utc(subs[i].next_run_utc) <= now_utc THEN i
    ELSE wx_scan(subs, i + 1, now_utc)

\* The tick's locals once the scan stopped at j.
Advance(tick, j) ==
    IF j > 0
    THEN [tick EXCEPT !.pc = "deliver", !.i = j,
                      !.sent = Append(@, <<tick.items[j].user_id, tick.items[j].id>>)]
    ELSE [IdleTick(tick.n - 1) EXCEPT !.aborted = (j = NONE)]

\* reminders_scheduler deleting a due reminder before it is delivered instead
\* of after.
reminders_tick_start_cancel_first ==
    /\ LoopMayFire(rem_task, rem_tick)
    /\ LET items == list_reminders(NONE)
           t == [pc |-> "scan", now |-> now, items |-> items, i |-> 0, sent |-> << >>,
                 n |-> rem_tick.n + 1, aborted |-> FALSE]
           a == Advance(t, rem_scan(items, 1, now))
       IN /\ rem_tick' = a
          /\ reminders' = IF a.pc = "deliver"
                          THEN cancel_reminder(items[a.i].id, items[a.i].user_id, TRUE).rows
                          ELSE reminders
    /\ UNCHANGED <<notes, weather_subs, now, ret, rem_task, wx_task, wx_tick,
                 json_file, wallets, balance, games, autodelete, probe>>

\* reminders_scheduler, from its start to its first await (or its end)
reminders_tick_start ==
    /\ LoopMayFire(rem_task, rem_tick)
    /\ LET items == list_reminders(NONE)
           t == [pc |-> "scan", now |-> now, items |-> items, i |-> 0, sent |-> << >>,
                 n |-> rem_tick.n + 1, aborted |-> FALSE]
       IN rem_tick' = Advance(t, rem_scan(items, 1, now))
    /\ UNCHANGED <<notes, reminders, weather_subs, now, ret, rem_task, wx_task, wx_tick,
                 json_file, wallets, balance, games, autodelete, probe>>

\* reminders_scheduler removing, with the reminder it delivered, the weather
\* subscription of the same owner and id.
reminders_dispatch_done_both_kinds(outcome) ==
    /\ rem_tick.pc = "deliver"
    /\ LET r == rem_tick.items[rem_tick.i] IN
       /\ reminders' = cancel_reminder(r.id, r.user_id, TRUE).rows
       /\ weather_subs' = remove_weather_sub(r.id, r.user_id).rows
       /\ rem_tick' = Advance(rem_tick, rem_scan(rem_tick.items, rem_tick.i + 1, rem_tick.now))
    /\ UNCHANGED <<notes, now, ret, rem_task, wx_task, wx_tick,
                 json_file, wallets, balance, games, autodelete, probe>>

\* reminders_scheduler, from the end of a delivery (it returned or raised) to
\* the next await (or the end of the tick)
reminders_dispatch_done(outcome) ==
    /\ rem_tick.pc = "deliver"
    /\ LET r == rem_tick.items[rem_tick.i] IN
       /\ reminders' = cancel_reminder(r.id, r.user_id, TRUE).rows
       /\ rem_tick' = Advance(rem_tick, rem_scan(rem_tick.items, rem_tick.i + 1, rem_tick.now))
    /\ UNCHANGED <<notes, weather_subs, now, ret, rem_task, wx_task, wx_tick,
                 json_file, wallets, balance, games, autodelete, probe>>

\* weather_scheduler: the due time written after a delivered outlook
wx_next_run(s, now_local) ==
    LET next_local == replace_hm(now_local, s.hh, s.mi) IN
    IF s.cadence = "daily"
    THEN to_utc(IF next_local <= now_local THEN next_local + DayLen ELSE next_local)
    ELSE to_utc(IF next_local <= now_local THEN next_local + DaysPerWeek * DayLen
                ELSE next_local + DaysPerWeek * DayLen)

weather_tick_start ==
    /\ LoopMayFire(wx_task, wx_tick)
    /\ LET subs == list_weather_subs(NONE)
           t == [pc |-> "scan", now |-> now, items |-> subs, i |-> 0, sent |-> << >>,
                 n |-> wx_tick.n + 1, aborted |-> FALSE]
       IN wx_tick' = Advance(t, wx_scan(subs, 1, now))
    /\ UNCHANGED <<notes, reminders, weather_subs, now, ret, rem_task, wx_task, rem_tick,
                 json_file, wallets, balance, games, autodelete, probe>>

\* weather_scheduler treating a subscription as reminders_scheduler treats a
\* reminder: the record is removed once its dispatch is over.
weather_dispatch_done_one_shot(outcome) ==
    /\ wx_tick.pc = "deliver"
    /\ LET s == wx_tick.items[wx_tick.i] IN
       /\ weather_subs' = remove_weather_sub(s.id, s.user_id).rows
       /\ wx_tick' = Advance(wx_tick, wx_scan(wx_tick.items, wx_tick.i + 1, wx_tick.now))
    /\ UNCHANGED <<notes, reminders, now, ret, rem_task, wx_task, rem_tick,
                 json_file, wallets, balance, games, autodelete, probe>>

weather_dispatch_done(outcome) ==
    /\ wx_tick.pc = "deliver"
    /\ LET s == wx_tick.items[wx_tick.i] IN
       /\ weather_subs' =
             IF outcome = "ok"
             THEN update_weather_sub(s.id, s.user_id,
                                     isoformat(wx_next_run(s, to_local(now)), 0)).rows
             ELSE update_weather_sub(s.id, 0,
                                     isoformat(wx_tick.now + RetryMinutes * MinuteLen, 0)).rows
       /\ wx_tick' = Advance(wx_tick, wx_scan(wx_tick.items, wx_tick.i + 1, wx_tick.now))
    /\ UNCHANGED <<notes, reminders, now, ret, rem_task, wx_task, rem_tick,
                 json_file, wallets, balance, games, autodelete, probe>>

\* A start that builds the store while the loops of the process go on.
restart_loops_go_on ==
    LET m == _maybe_migrate_from_json(Db(wallets, notes, reminders, weather_subs), json_file) IN
    /\ wallets' = m.db.wallets
    /\ notes' = m.db.notes
    /\ reminders' = m.db.reminders
    /\ weather_subs' = m.db.weather_subs
    /\ json_file' = m.file
    /\ ret' = [op |-> "Store", uid |-> 0, id |-> 0, val |-> m.val, rep |-> FALSE,
               cut |-> <<rem_tick.pc = "deliver", wx_tick.pc = "deliver">>]
    /\ games' = {}
    /\ UNCHANGED <<now, rem_task, wx_task, rem_tick, wx_tick, balance, autodelete, probe>>

\* The process ends (it is stopped, or it crashes at any await) and is started
\* again: store = Store(DATA_PATH) runs the migration on the database file, and
\* the loops and the coroutines of the old process are gone.  ret.cut keeps
\* which loops the end of the old process caught inside a delivery.
\* store = Store(DATA_PATH) runs at import (line 683), before bot.run (line
\* 3411) starts the event loop: no loop of the new process runs yet.
restart ==
    LET m == _maybe_migrate_from_json(Db(wallets, notes, reminders, weather_subs), json_file) IN
    /\ wallets' = m.db.wallets
    /\ notes' = m.db.notes
    /\ reminders' = m.db.reminders
    /\ weather_subs' = m.db.weather_subs
    /\ json_file' = m.file
    /\ ret' = [op |-> "Store", uid |-> 0, id |-> 0, val |-> m.val, rep |-> FALSE,
               cut |-> <<rem_tick.pc = "deliver", wx_tick.pc = "deliver">>]
    /\ rem_task' = 0
    /\ wx_task' = 0
    /\ rem_tick' = IdleTick(0)
    /\ wx_tick' = IdleTick(0)
    /\ games' = {}
    /\ UNCHANGED <<now, balance, autodelete, probe>>

AdvanceClock ==
    /\ \E t \in Instants : t > now /\ now' = t
    /\ UNCHANGED <<notes, reminders, weather_subs, ret, rem_task, wx_task, rem_tick, wx_tick,
                 json_file, wallets, balance, games, autodelete, probe>>

\* ------------------------------------------------------- specification
Outcomes == {"ok", "fail"}
RemindMinutes == {1}

Init ==
    /\ notes = {}
    /\ reminders = {}
    /\ weather_subs = {}
    /\ now = StartTime
    /\ ret = [op |-> "none", uid |-> 0, id |-> 0, val |-> "none", rep |-> FALSE]
    /\ rem_task = 0
    /\ wx_task = 0
    /\ rem_tick = IdleTick(0)
    /\ wx_tick = IdleTick(0)
    /\ json_file = NoFile
    /\ wallets = {}
    /\ autodelete = {}
    /\ probe = NoProbe
    /\ balance = [u \in Owners |-> 0]
    /\ games = {}

\* The legacy files the model starts from: none, one that is no JSON, one
\* whose records are complete, and one that has a reminder without due_utc and
\* a subscription without next_run_utc among complete ones.
LegacyReminder(u, due) ==
    [user_id |-> u, channel_id |-> NONE, dm |-> TRUE, text |-> "a", due_utc |-> due]
LegacySub(u, next_run) ==
    [user_id |-> u, zip |-> "60601", cadence |-> "daily", hh |-> 7, mi |-> 1,
     weekly_days |-> DefaultWeeklyDays, next_run_utc |-> next_run]
CompleteData ==
    [wallets |-> <<1>>,
     notes |-> <<[user_id |-> 1, texts |-> <<"a">>]>>,
     reminders |-> <<LegacyReminder(1, isoformat(StartTime + 2 * MinuteLen, 0)),
                     LegacyReminder(1, isoformat(StartTime + MinuteLen, 0))>>,
     subs |-> <<LegacySub(2, isoformat(StartTime + MinuteLen, 0))>>]
MalformedData ==
    [wallets |-> << >>,
     notes |-> << >>,
     reminders |-> <<LegacyReminder(1, NullText),
                     LegacyReminder(1, isoformat(StartTime + MinuteLen, 0)),
                     LegacyReminder(2, isoformat(StartTime + MinuteLen, 0))>>,
     subs |-> <<LegacySub(1, isoformat(StartTime + MinuteLen, 0)),
                LegacySub(1, NullText),
                LegacySub(2, isoformat(StartTime + MinuteLen, 0))>>]
\* A legacy file with a wallet, a note, reminders and two subscriptions, the
\* second one without user_id.
PartialData ==
    [CompleteData EXCEPT !.subs = <<LegacySub(2, isoformat(StartTime + MinuteLen, 0)),
                                    LegacySub(NONE, isoformat(StartTime + MinuteLen, 0))>>]
LegacyFiles ==
    {NoFile, [state |-> "corrupt", data |-> << >>],
     [state |-> "legacy", data |-> CompleteData],
     [state |-> "legacy", data |-> MalformedData]}

\* The state after store = Store(DATA_PATH) on a new database, or on one that
\* holds wallets only, with one of the legacy files at DATA_PATH.
InitLegacy ==
    \E f \in LegacyFiles, w \in {{}, {1}} :
        LET m == _maybe_migrate_from_json(Db(w, {}, {}, {}), f) IN
        /\ wallets = m.db.wallets
        /\ notes = m.db.notes
        /\ reminders = m.db.reminders
        /\ weather_subs = m.db.weather_subs
        /\ json_file = m.file
        /\ ret = [op |-> "Store", uid |-> 0, id |-> 0, val |-> m.val, rep |-> FALSE,
                  cut |-> <<FALSE, FALSE>>]
        /\ now = StartTime
        /\ rem_task = 0
        /\ wx_task = 0
        /\ rem_tick = IdleTick(0)
        /\ wx_tick = IdleTick(0)
        /\ autodelete = {}
        /\ probe = NoProbe
        /\ balance = [u \in Owners |-> 0]
        /\ games = {}
    /\ balance = [u \in Owners |-> 0]
    /\ games = {}

NoteAdd == \E u \in Owners, t \in Texts : StoreRows < MaxRows /\ note_add(u, t)
NotesDelete == \E u \in Owners, i \in Ids : notes_delete(u, i)
RemindIn ==
    \E u \in Owners, ch \in Channels, m \in RemindMinutes, t \in Texts, dm \in BOOLEAN :
        StoreRows < MaxRows /\ remind_in(u, ch, m, t, dm)
RemindInDM ==
    \E u \in Owners, ch \in Channels, m \in RemindMinutes, t \in Texts :
        StoreRows < MaxRows /\ remind_in(u, ch, m, t, TRUE)
RemindCancel == \E u \in Owners, i \in Ids, is_mod \in BOOLEAN : remind_cancel(u, i, is_mod)
WeatherSubscribe ==
    \E u \in Owners, t \in SubTimes, c \in Cadences, z \in Zips :
        StoreRows < MaxRows /\ weather_subscribe(u, t[1], t[2], c, z, DefaultWeeklyDays)
WeatherUnsubscribe == \E u \in Owners, i \in Ids : weather_unsubscribe(u, i)
RemindersDispatchDone == \E o \in Outcomes : reminders_dispatch_done(o)
WeatherDispatchDone == \E o \in Outcomes : weather_dispatch_done(o)

\* The whole program.
Next ==
    \/ NoteAdd
    \/ NotesDelete
    \/ RemindIn
    \/ RemindCancel
    \/ WeatherSubscribe
    \/ WeatherUnsubscribe
    \/ on_ready
    \/ reminders_tick_start
    \/ RemindersDispatchDone
    \/ weather_tick_start
    \/ WeatherDispatchDone
    \/ AdvanceClock

Spec == Init /\ [][Next]_vars

\* The command handlers of the three kinds, without the schedulers.
NextStore ==
    \/ NoteAdd
    \/ NotesDelete
    \/ RemindIn
    \/ RemindCancel
    \/ WeatherSubscribe
    \/ WeatherUnsubscribe

SpecStore == Init /\ [][NextStore]_vars

\* The reminders: their commands, their scheduler and the clock.
NextRem ==
    \/ RemindInDM
    \/ RemindCancel
    \/ on_ready
    \/ reminders_tick_start
    \/ RemindersDispatchDone
    \/ AdvanceClock

SpecRem == Init /\ [][NextRem]_vars

\* The weather subscriptions: their commands, their scheduler and the clock.
NextWx ==
    \/ WeatherSubscribe
    \/ WeatherUnsubscribe
    \/ on_ready
    \/ weather_tick_start
    \/ WeatherDispatchDone
    \/ AdvanceClock

SpecWx == Init /\ [][NextWx]_vars

\* The two scheduler loops side by side, fed by creates.
NextLoops ==
    \/ RemindInDM
    \/ WeatherSubscribe
    \/ on_ready
    \/ reminders_tick_start
    \/ RemindersDispatchDone
    \/ weather_tick_start
    \/ WeatherDispatchDone
    \/ AdvanceClock

SpecLoops == Init /\ [][NextLoops]_vars

\* The two loops over a store that was migrated from a legacy file.
NextLegacy ==
    \/ RemindInDM
    \/ WeatherSubscribe
    \/ on_ready
    \/ reminders_tick_start
    \/ RemindersDispatchDone
    \/ weather_tick_start
    \/ WeatherDispatchDone
    \/ AdvanceClock

SpecLegacy == InitLegacy /\ [][NextLegacy]_vars

\* The two loops in a process that may end at any await and be started again.
NextCrash ==
    \/ RemindInDM
    \/ WeatherSubscribe
    \/ on_ready
    \/ reminders_tick_start
    \/ RemindersDispatchDone
    \/ weather_tick_start
    \/ WeatherDispatchDone
    \/ restart
    \/ AdvanceClock

SpecCrash == Init /\ [][NextCrash]_vars

\* The create commands called with texts that are well formed and texts that
\* are not.  The clock starts on 11 January of EpochYear, 07:00 in Chicago.
TimeTexts ==
    {TimeText(TRUE, 7, 1, ""),       \* "07:01"
     TimeText(TRUE, 7, 1, "pm"),     \* "7:01pm"
     TimeText(TRUE, 24, 0, ""),      \* "24:00"
     TimeText(TRUE, 7, 60, ""),      \* "7:60"
     TimeText(TRUE, 99, 0, "pm"),    \* "99:00pm"
     TimeText(FALSE, 0, 0, "")}      \* "soon"
DateTexts ==
    {DateText(TRUE, 1, 11, EpochYear),    \* "01-11-2025"
     DateText(TRUE, 1, 10, EpochYear),    \* "01-10-2025"
     DateText(TRUE, 2, 30, EpochYear),    \* "02-30-2025"
     DateText(TRUE, 13, 1, EpochYear),    \* "13-01-2025"
     DateText(FALSE, 0, 0, 0)}            \* "tomorrow"
OffsetTexts ==
    {OffsetText(FALSE, FALSE, 1, 0, 0),        \* omitted
     OffsetText(TRUE, TRUE, 0 - 1, 6, 0),      \* "-06:00"
     OffsetText(TRUE, TRUE, 1, 25, 0),         \* "+25:00"
     OffsetText(TRUE, FALSE, 1, 0, 0)}         \* "CST"
ZipTexts ==
    {NoZip,
     <<"6", "0", "6", "0", "1">>,
     <<"a", "b", "c", "d", "e">>,
     <<"1", "2", "3", "4", "5", "6">>}
DurationTexts ==
    {DurationText(TRUE, 10, "s"),
     DurationText(TRUE, 4, "s"),
     DurationText(TRUE, 86400, "s"),
     DurationText(TRUE, 86401, "s"),
     DurationText(TRUE, 2, "m"),
     DurationText(TRUE, 1441, ""),
     DurationText(TRUE, 0 - 1, "m"),
     DurationText(FALSE, 0, "s")}            \* "ten"

RemindAt ==
    \E u \in Owners, ch \in Channels, d \in DateTexts, t \in TimeTexts, m \in Texts,
       o \in OffsetTexts, dm \in BOOLEAN :
        StoreRows < MaxRows /\ remind_at(u, ch, d, t, m, o, dm)
WeatherSubscribeText ==
    \E u \in Owners, t \in TimeTexts, c \in Cadences, z \in ZipTexts :
        StoreRows < MaxRows /\ weather_subscribe_text(u, t, c, z, DefaultWeeklyDays)
AutodeleteSet ==
    \E u \in Owners, ch \in Channels, d \in DurationTexts : autodelete_set(u, ch, d)

NextCreate ==
    \/ RemindAt
    \/ WeatherSubscribeText
    \/ AutodeleteSet
    \/ AdvanceClock

SpecCreate == Init /\ [][NextCreate]_vars

\* The weather scheduler with one user who subscribes and unsubscribes.
Subscriber == CHOOSE u \in Owners : \A v \in Owners : u <= v
SubscribeOne ==
    \E t \in SubTimes, c \in Cadences, z \in Zips :
        StoreRows < MaxRows /\ weather_subscribe(Subscriber, t[1], t[2], c, z, DefaultWeeklyDays)
UnsubscribeOne == \E i \in Ids : weather_unsubscribe(Subscriber, i)

NextSubs ==
    \/ SubscribeOne
    \/ UnsubscribeOne
    \/ on_ready
    \/ weather_tick_start
    \/ WeatherDispatchDone
    \/ AdvanceClock

SpecSubs == Init /\ [][NextSubs]_vars

\* Every writer of a due time: remind_in, remind_at, weather_subscribe and the
\* reschedule of weather_scheduler.
NextDue ==
    \/ RemindInDM
    \/ RemindAt
    \/ SubscribeOne
    \/ on_ready
    \/ weather_tick_start
    \/ WeatherDispatchDone
    \/ AdvanceClock

SpecDue == Init /\ [][NextDue]_vars

\* The subscriptions of one user with the listing command.
ListOne == weather_subscriptions(Subscriber)
NextListing ==
    \/ SubscribeOne
    \/ UnsubscribeOne
    \/ ListOne
    \/ on_ready
    \/ weather_tick_start
    \/ WeatherDispatchDone
    \/ AdvanceClock

SpecListing == Init /\ [][NextListing]_vars

\* The wallets: shifts, payments and wager games of the users.
Work == \E u \in Owners, a \in Amounts : work(u, a)
Pay == \E u \in Owners, v \in Owners, a \in Amounts : pay(u, v, a)
HighLow == \E u \in Owners, b \in Amounts : highlow(u, b)
HighLowDone == \E g \in games, r \in {"win", "loss", "push"} : highlow_done(g, r)
NextWallets ==
    \/ Work
    \/ Pay
    \/ HighLow
    \/ HighLowDone

SpecWallets == Init /\ [][NextWallets]_vars

\* The wallets with at most one wager game open at a time.
NextPay ==
    \/ Work
    \/ Pay
    \/ games = {} /\ HighLow
    \/ HighLowDone

SpecPay == Init /\ [][NextPay]_vars

\* The process started again and again over a store that was built with a
\* legacy file at DATA_PATH, with commands in between.
NextMigrate ==
    \/ restart
    \/ NoteAdd
    \/ NotesDelete
    \/ RemindInDM
    \/ RemindCancel

SpecMigrate == InitLegacy /\ [][NextMigrate]_vars

\* The process started on a new database with a legacy file at DATA_PATH, and
\* started again whenever it is down or up.  An exception that leaves
\* Store.__init__ ends the process at line 683, before the bot runs: no
\* command is served until the next start.
Raises == {"TypeError", "IntegrityError"}
ProcessUp == ~(ret.op = "Store" /\ ret.val \in Raises)
InitFirstStart ==
    \E data \in {CompleteData, MalformedData, PartialData} :
        LET m == _maybe_migrate_from_json(Db({}, {}, {}, {}), [state |-> "legacy", data |-> data]) IN
        /\ wallets = m.db.wallets
        /\ notes = m.db.notes
        /\ reminders = m.db.reminders
        /\ weather_subs = m.db.weather_subs
        /\ json_file = m.file
        /\ ret = [op |-> "Store", uid |-> 0, id |-> 0, val |-> m.val, rep |-> FALSE,
                  cut |-> <<FALSE, FALSE>>]
        /\ now = StartTime
        /\ rem_task = 0
        /\ wx_task = 0
        /\ rem_tick = IdleTick(0)
        /\ wx_tick = IdleTick(0)
        /\ autodelete = {}
        /\ probe = NoProbe
        /\ balance = [u \in Owners |-> 0]
        /\ games = {}
    /\ balance = [u \in Owners |-> 0]
    /\ games = {}
NextStarts ==
    \/ restart
    \/ ProcessUp /\ NoteAdd
    \/ ProcessUp /\ NotesDelete
    \/ ProcessUp /\ RemindInDM
    \/ ProcessUp /\ RemindCancel

SpecStarts == InitFirstStart /\ [][NextStarts]_vars

\* The migration on its own: a new database, one start with a legacy file at
\* DATA_PATH and the starts after it.  The files hold up to MaxLegacy
\* reminders and subscriptions drawn from records of two owners with equal and
\* different due times, texts and times of day, and a reminder without
\* due_utc.
MaxLegacy == 2
LegacyReminderChoices ==
    {LegacyReminder(1, isoformat(StartTime + 2 * MinuteLen, 0)),
     [LegacyReminder(1, isoformat(StartTime + MinuteLen, 0)) EXCEPT !.text = "b"],
     LegacyReminder(1, isoformat(StartTime + MinuteLen, 0)),
     LegacyReminder(2, NullText),
     LegacyReminder(2, isoformat(StartTime + MinuteLen, 0))}
LegacySubChoices ==
    {LegacySub(1, isoformat(StartTime + MinuteLen, 0)),
     [LegacySub(1, isoformat(StartTime + MinuteLen, 0)) EXCEPT !.hh = 6],
     LegacySub(2, isoformat(StartTime + MinuteLen, 0))}
LegacyNoteChoices == {<< >>, <<[user_id |-> 1, texts |-> <<"a", "a">>]>>}
UpTo(S, n) == UNION {[1 .. k -> S] : k \in 0 .. n}
InitImport ==
    /\ \E r \in UpTo(LegacyReminderChoices, MaxLegacy), sb \in UpTo(LegacySubChoices, MaxLegacy),
          n \in LegacyNoteChoices :
          json_file = [state |-> "legacy",
                       data |-> [wallets |-> <<1>>, notes |-> n, reminders |-> r, subs |-> sb]]
    /\ wallets = {}
    /\ notes = {}
    /\ reminders = {}
    /\ weather_subs = {}
    /\ ret = [op |-> "none", uid |-> 0, id |-> 0, val |-> "none", rep |-> FALSE]
    /\ now = StartTime
    /\ rem_task = 0
    /\ wx_task = 0
    /\ rem_tick = IdleTick(0)
    /\ wx_tick = IdleTick(0)
    /\ autodelete = {}
    /\ probe = NoProbe
    /\ balance = [u \in Owners |-> 0]
    /\ games = {}

SpecImport == InitImport /\ [][restart]_vars

\* The starts of the process and its loops: on_ready is called only in a
\* process whose import ran to its end.
NextBoot ==
    \/ restart
    \/ ProcessUp /\ on_ready
    \/ reminders_tick_start
    \/ RemindersDispatchDone
    \/ weather_tick_start
    \/ WeatherDispatchDone
    \/ AdvanceClock

SpecBoot == InitFirstStart /\ [][NextBoot]_vars

\* _next_local_run called on its own: local wall-clock readings around the
\* target (just before it, on it, just after it, the end of the day, later
\* days) and hours and minutes at the ends and inside their ranges.
ProbeDay == (to_local(StartTime) \div DayLen) * DayLen
ProbeNows ==
    {ProbeDay,
     ProbeDay + 7 * HourLen - 1,
     ProbeDay + 7 * HourLen,
     ProbeDay + 7 * HourLen + 1,
     ProbeDay + 23 * HourLen + 59 * MinuteLen + 59,
     ProbeDay + DayLen,
     ProbeDay + DayLen + 8 * HourLen,
     ProbeDay + DaysPerWeek * DayLen + 6 * HourLen}
ProbeHours == {0, 7, 23}
ProbeMinutes == {0, 30, 59}

call_next_local_run(now_local, hh, mi, cadence) ==
    /\ probe' = [fn |-> "_next_local_run", now_local |-> now_local, hh |-> hh, mi |-> mi,
                 cadence |-> cadence, val |-> _next_local_run(now_local, hh, mi, cadence),
                 again |-> NoProbe]
    /\ UNCHANGED <<notes, reminders, weather_subs, now, ret, rem_task, wx_task, rem_tick,
                 wx_tick, json_file, wallets, balance, games, autodelete>>

\* A second call with the same hh, mi and cadence before the first result has
\* come: now_local is the same or later, and before the first result.
call_next_local_run_again(now_local) ==
    /\ probe.fn = "_next_local_run"
    /\ probe.now_local <= now_local
    /\ now_local < probe.val
    /\ probe' = [probe EXCEPT !.again =
                    [fn |-> "_next_local_run", now_local |-> now_local,
                     val |-> _next_local_run(now_local, probe.hh, probe.mi, probe.cadence)]]
    /\ UNCHANGED <<notes, reminders, weather_subs, now, ret, rem_task, wx_task, rem_tick,
                 wx_tick, json_file, wallets, balance, games, autodelete>>

NextLocalRun ==
    \E n \in ProbeNows, hh \in ProbeHours, mi \in ProbeMinutes, c \in Cadences :
       call_next_local_run(n, hh, mi, c)
NextLocalRunAgain == \E n \in ProbeNows : call_next_local_run_again(n)

NextProbe ==
    \/ NextLocalRun
    \/ NextLocalRunAgain

SpecProbe == Init /\ [][NextProbe]_vars

\* Store.add_reminder and Store.add_weather_sub called with any valid record.
ValidChannels == {NONE} \cup Channels
DueTexts == {isoformat(StartTime + DayLen, _chicago_tz_for)}
WeeklyDaysChoices == {3, 7}
ValidReminders ==
    [user_id : Owners, channel_id : ValidChannels, dm : BOOLEAN, text : Texts,
     due_utc : DueTexts]
ValidSubs ==
    [user_id : Owners, zip : Zips, cadence : Cadences, hh : {t[1] : t \in SubTimes},
     mi : {t[2] : t \in SubTimes}, weekly_days : WeeklyDaysChoices, next_run_utc : DueTexts]

call_add_reminder(rem) ==
    LET c == add_reminder(rem) IN
    /\ reminders' = c.rows
    /\ ret' = Reply("add_reminder", rem.user_id, c.id, c.val)
    /\ UNCHANGED <<notes, weather_subs, now, rem_task, wx_task, rem_tick, wx_tick,
                 json_file, wallets, balance, games, autodelete, probe>>

call_add_weather_sub(sub) ==
    LET c == add_weather_sub(sub) IN
    /\ weather_subs' = c.rows
    /\ ret' = Reply("add_weather_sub", sub.user_id, c.id, c.val)
    /\ UNCHANGED <<notes, reminders, now, rem_task, wx_task, rem_tick, wx_tick,
                 json_file, wallets, balance, games, autodelete, probe>>

AddReminder == \E rem \in ValidReminders : StoreRows < MaxRows /\ call_add_reminder(rem)
AddWeatherSub == \E sub \in ValidSubs : StoreRows < MaxRows /\ call_add_weather_sub(sub)

NextRoundTrip ==
    \/ AddReminder
    \/ AddWeatherSub

SpecRoundTrip == Init /\ [][NextRoundTrip]_vars

\* ----------------------------------------------------------- properties
\* id is the minimum integer >= 1 that no row of user_id holds in table.
IsLowestFree(table, user_id, id) ==
    /\ id >= 1
    /\ ~PKHeld(table, user_id, id)
    /\ \A j \in 1 .. (id - 1) : PKHeld(table, user_id, j)

\* A create of `user` in a table: it returned an id, that id was the lowest
\* free one of the owner, and the only new row carries it.
CreatedLowest(before, after, user) ==
    /\ ret'.val = "id"
    /\ IsLowestFree(before, user, ret'.id)
    /\ PKHeld(after, user, ret'.id)
    /\ \A r \in after \ before : r.user_id = user /\ r.id = ret'.id

\* C1: the id a create assigns is the minimum integer >= 1 that no live record
\* of the same kind and owner holds; it is never an id currently held.
C1_LowestFreeId ==
    [][\A u \in Owners :
          /\ (\E t \in Texts : note_add(u, t)) => CreatedLowest(notes, notes', u)
          /\ (\E ch \in Channels, m \in RemindMinutes, t \in Texts, dm \in BOOLEAN :
                 remind_in(u, ch, m, t, dm))
                => CreatedLowest(reminders, reminders', u)
          /\ (\E t \in SubTimes, c \in Cadences, z \in Zips :
                 weather_subscribe(u, t[1], t[2], c, z, DefaultWeeklyDays))
                => CreatedLowest(weather_subs, weather_subs', u)]_vars

\* A create reused id 1, freed by a delete, while the owner's id 2 is live.
C1_Witness ==
    /\ ret.op = "add_reminder"
    /\ ret.val = "id"
    /\ ret.id = 1
    /\ PKHeld(reminders, ret.uid, 2)

UniqueIds(table) ==
    \A r1 \in table, r2 \in table : (r1.user_id = r2.user_id /\ r1.id = r2.id) => r1 = r2

OwnerRows(u) ==
    <<{r \in notes : r.user_id = u}, {r \in reminders : r.user_id = u},
      {r \in weather_subs : r.user_id = u}>>

\* A step of a command handler: the schedulers and the clock stand still.  The
\* handler's Store call and its requester are those of ret'.
CommandStep == UNCHANGED <<now, rem_task, wx_task, rem_tick, wx_tick>>

\* The table a create of the given Store method writes.
TableOf(op, n, r, w) ==
    IF op = "add_note" THEN n
    ELSE IF op = "add_reminder" THEN r
    ELSE w

C6_ModCancelsAny ==
    [][\A u \in Owners, i \in Ids :
          /\ (remind_cancel(u, i, TRUE) /\ \E r \in reminders : r.id = i)
                => (ret'.val = "True" /\ \E r \in reminders \ reminders' : r.id = i)
          /\ remind_cancel(u, i, FALSE)
                => /\ \A r \in reminders \ reminders' : r.user_id = u /\ r.id = i
                   /\ (ret'.val = "True") <=> PKHeld(reminders, u, i)]_vars

\* The command before this one made the same delete and was told True.
DeletedJustBefore(op, u, i) ==
    ret.op = op /\ ret.uid = u /\ ret.id = i /\ ret.val = "True"

\* A delete of a live record answers True and removes it; the same delete made
\* again answers False and changes nothing.
TrueThenFalse(op, table, u, i) ==
    /\ PKHeld(table, u, i) => (ret'.val = "True" /\ ~PKHeld(table', u, i))
    /\ DeletedJustBefore(op, u, i) => (ret'.val = "False" /\ UNCHANGED tables)

\* C8: a delete (delete_note, cancel_reminder, remove_weather_sub) called twice
\* with the same arguments returns true the first time and false the second,
\* and the second call leaves the store unchanged.
C8_DeleteTwice ==
    [][\A u \in Owners, i \in Ids :
          /\ notes_delete(u, i) => TrueThenFalse("delete_note", notes, u, i)
          /\ (\E is_mod \in BOOLEAN : remind_cancel(u, i, is_mod))
                => TrueThenFalse("cancel_reminder", reminders, u, i)
          /\ weather_unsubscribe(u, i)
                => TrueThenFalse("remove_weather_sub", weather_subs, u, i)]_vars

\* The same unsubscribe was made twice in a row: True, then False.
C8_Witness ==
    /\ ret.op = "remove_weather_sub"
    /\ ret.rep
    /\ ret.val = "False"

\* A delete whose target the requester does not hold answers False and leaves
\* every table as it was.
RefusedUnchanged(table, u, i) ==
    ~PKHeld(table, u, i) => (ret'.val = "False" /\ UNCHANGED tables)

\* C9: a delete whose target does not exist for the requesting owner, or exists
\* only under a different owner, returns false and leaves all records unchanged.
C9_DeleteMissing ==
    [][\A u \in Owners, i \in Ids :
          /\ notes_delete(u, i) => RefusedUnchanged(notes, u, i)
          /\ (\E is_mod \in BOOLEAN : remind_cancel(u, i, is_mod))
                => RefusedUnchanged(reminders, u, i)
          /\ weather_unsubscribe(u, i) => RefusedUnchanged(weather_subs, u, i)]_vars

\* A cancel was refused for an id that only another owner holds.
C9_Witness ==
    /\ ret.op = "cancel_reminder"
    /\ ret.val = "False"
    /\ ~PKHeld(reminders, ret.uid, ret.id)
    /\ \E r \in reminders : r.id = ret.id /\ r.user_id # ret.uid

\* The subscription a tick of weather_scheduler is delivering, and the stored
\* rows its reschedule addresses.
DeliveredSub == wx_tick.items[wx_tick.i]
RowsOfDelivered(table) ==
    {r \in table : r.user_id = DeliveredSub.user_id /\ r.id = DeliveredSub.id}
TimesSent(tick, key) == Cardinality({k \in 1 .. Len(tick.sent) : tick.sent[k] = key})

\* C3: a daily subscription whose due time is in the past has, after the tick
\* that dispatches it, a stored due time strictly later than the now the tick
\* observed, and the tick handed it to delivery exactly once.
C3_DailyRescheduled ==
    [][\A o \in Outcomes :
          (weather_dispatch_done(o) /\ DeliveredSub.cadence = "daily")
             => /\ \A r \in RowsOfDelivered(weather_subs') :
                      parses(r.next_run_utc) /\ parse_as_utc(r.next_run_utc) > wx_tick.now
                /\ TimesSent(wx_tick, <<DeliveredSub.user_id, DeliveredSub.id>>) = 1]_vars

\* C4: when the dispatch of a due subscription fails, the tick stores a due
\* time equal to the tick's now plus the retry delay of five minutes.
C4_FallbackPersisted ==
    [][weather_dispatch_done("fail")
          => \A r \in RowsOfDelivered(weather_subs') :
                r.next_run_utc = isoformat(wx_tick.now + RetryMinutes * MinuteLen, 0)]_vars

\* C5: right after weather_subscribe, and right after every reschedule by the
\* scheduler (delivered or failed, daily or weekly), the stored due time is
\* strictly later than the instant it was computed from (the clock for a
\* create and a delivered outlook, the tick's now for the fallback).
C5_NextDueInFuture ==
    [][/\ \A u \in Owners :
             (\E t \in SubTimes, c \in Cadences, z \in Zips :
                 weather_subscribe(u, t[1], t[2], c, z, DefaultWeeklyDays))
                => \A r \in weather_subs' :
                      (r.user_id = u /\ r.id = ret'.id)
                         => (parses(r.next_run_utc) /\ parse_as_utc(r.next_run_utc) > now)
       /\ weather_dispatch_done("ok")
             => \A r \in RowsOfDelivered(weather_subs') :
                   parses(r.next_run_utc) /\ parse_as_utc(r.next_run_utc) > now
       /\ weather_dispatch_done("fail")
             => \A r \in RowsOfDelivered(weather_subs') :
                   parses(r.next_run_utc) /\ parse_as_utc(r.next_run_utc) > wx_tick.now]_vars

\* C7: each scheduler has at most one loop task and at most one tick in
\* flight, however slow a delivery is and however often on_ready fires, and a
\* tick hands no record to delivery twice.
C7_OneTickInFlight ==
    /\ rem_task <= 1
    /\ wx_task <= 1
    /\ rem_tick.n <= 1
    /\ wx_tick.n <= 1
    /\ \A k \in 1 .. Len(rem_tick.sent) : TimesSent(rem_tick, rem_tick.sent[k]) = 1
    /\ \A k \in 1 .. Len(wx_tick.sent) : TimesSent(wx_tick, wx_tick.sent[k]) = 1

\* Both schedulers are in a delivery that has outlasted the period of the loop.
C7_Witness ==
    /\ rem_tick.pc = "deliver"
    /\ now - rem_tick.now >= REMINDER_TICK_SECONDS
    /\ wx_tick.pc = "deliver"
    /\ now - wx_tick.now >= WEATHER_TICK_SECONDS

\* C10: for every valid reminder or subscription r, the create followed by the
\* list of the owner yields a record equal to r in every field, the assigned id
\* apart.
C10_RoundTrip ==
    [][/\ \A rem \in ValidReminders :
             call_add_reminder(rem)
                => \E k \in DOMAIN list_reminders(rem.user_id)' :
                      LET d == list_reminders(rem.user_id)'[k] IN
                      /\ d.id = ret'.id
                      /\ d.user_id = rem.user_id
                      /\ d.dm = rem.dm
                      /\ d.channel_id = rem.channel_id
                      /\ d.text = rem.text
                      /\ d.due_utc = rem.due_utc
       /\ \A sub \in ValidSubs :
             call_add_weather_sub(sub)
                => \E k \in DOMAIN list_weather_subs(sub.user_id)' :
                      LET d == list_weather_subs(sub.user_id)'[k] IN
                      /\ d.id = ret'.id
                      /\ [f \in DOMAIN sub |-> d[f]] = sub]_vars

\* A reminder with the dm flag and a channel, and a subscription, were created
\* and are listed.
C10_Witness ==
    /\ ret.op = "add_reminder"
    /\ \E k \in DOMAIN list_reminders(ret.uid) :
          LET d == list_reminders(ret.uid)[k] IN
          d.id = ret.id /\ d.dm /\ d.channel_id \in Channels
    /\ weather_subs # {}

\* Some item of the list after position i has a due time that parses and is
\* not later than now_utc.
DueOf(r) == IF "due_utc" \in DOMAIN r THEN r.due_utc ELSE r.next_run_utc
HasDueAfter(items, i, now_utc) ==
    \E k \in (i + 1) .. Len(items) :
       parses(DueOf(items[k])) /\ parse_as_utc(DueOf(items[k])) <= now_utc

\* C12: a stored record whose due time is missing or does not parse never takes
\* the scheduler out of its scan: no tick is aborted, and a tick that has a due
\* record ahead of it in its list goes on to deliver it.
C12_MalformedSkipped ==
    [][/\ ~rem_tick'.aborted
       /\ ~wx_tick'.aborted
       /\ (reminders_tick_start /\ HasDueAfter(list_reminders(NONE), 0, now))
             => rem_tick'.pc = "deliver"
       /\ (weather_tick_start /\ HasDueAfter(list_weather_subs(NONE), 0, now))
             => wx_tick'.pc = "deliver"
       /\ ((\E o \in Outcomes : reminders_dispatch_done(o))
              /\ HasDueAfter(rem_tick.items, rem_tick.i, rem_tick.now))
             => rem_tick'.pc = "deliver"
       /\ ((\E o \in Outcomes : weather_dispatch_done(o))
              /\ HasDueAfter(wx_tick.items, wx_tick.i, wx_tick.now))
             => wx_tick'.pc = "deliver"]_vars

\* The first position after i of a due item of the list (0 when there is none).
FirstDueAfter(items, i, now_utc) ==
    IF HasDueAfter(items, i, now_utc)
    THEN CHOOSE k \in (i + 1) .. Len(items) :
            /\ parses(DueOf(items[k])) /\ parse_as_utc(DueOf(items[k])) <= now_utc
            /\ ~HasDueAfter(SubSeq(items, 1, k - 1), i, now_utc)
    ELSE 0

\* The item a tick of reminders_scheduler is delivering.
DeliveredReminder == rem_tick.items[rem_tick.i]

\* The tick goes from position tick.i to the next due item of its list, or
\* ends when the list has none.
GoesOn(tick, after) ==
    \/ /\ after.pc = "deliver"
       /\ after.i = FirstDueAfter(tick.items, tick.i, tick.now)
    \/ /\ after.pc = "idle"
       /\ ~HasDueAfter(tick.items, tick.i, tick.now)

\* C11: a delivery that fails does not end the tick: the tick goes on to the
\* next record of its list that was due at its start, and the record whose
\* dispatch is over gets its policy (a reminder is deleted, a subscription
\* whose outlook was delivered is rescheduled past the tick's now).
C11_FailureIsolated ==
    [][/\ reminders_dispatch_done("fail")
             => /\ GoesOn(rem_tick, rem_tick')
                /\ ~PKHeld(reminders', DeliveredReminder.user_id, DeliveredReminder.id)
       /\ weather_dispatch_done("fail") => GoesOn(wx_tick, wx_tick')
       /\ weather_dispatch_done("ok")
             => \A r \in RowsOfDelivered(weather_subs') :
                   parses(r.next_run_utc) /\ parse_as_utc(r.next_run_utc) > wx_tick.now]_vars

\* C13: when a tick of reminders_scheduler is over, every reminder that was due
\* at its start was handed to delivery at most once in the tick and is no
\* longer stored, whatever the delivery came to.
C13_OneShotConsumed ==
    [][/\ ((\E o \in Outcomes : reminders_dispatch_done(o)) /\ rem_tick'.pc = "idle")
             => \A k \in 1 .. Len(rem_tick.items) :
                   LET it == rem_tick.items[k] IN
                   (parses(it.due_utc) /\ parse_as_utc(it.due_utc) <= rem_tick.now)
                      => /\ TimesSent(rem_tick, <<it.user_id, it.id>>) <= 1
                         /\ ~\E r \in reminders' :
                                r.user_id = it.user_id /\ r.id = it.id /\ r.due_utc = it.due_utc
       /\ (reminders_tick_start /\ rem_tick'.pc = "idle")
             => ~HasDueAfter(list_reminders(NONE), 0, now)]_vars

\* The locals of a tick that has just read the store and the clock.
TickAt(items, now_utc) == [items |-> items, i |-> 0, now |-> now_utc]

\* C14: when the process ends while a delivery is in flight (the delete or the
\* reschedule that follows it has not run) and is started again, the record is
\* still stored and still due; and every tick takes the due records of the
\* store in turn, from the first one, so the record is dispatched again.
C14_AtLeastOnce ==
    [][/\ (restart /\ rem_tick.pc = "deliver")
             => \E r \in reminders' :
                   /\ r.user_id = DeliveredReminder.user_id /\ r.id = DeliveredReminder.id
                   /\ parses(r.due_utc) /\ parse_as_utc(r.due_utc) <= now'
       /\ (restart /\ wx_tick.pc = "deliver")
             => \E s \in RowsOfDelivered(weather_subs') :
                   parses(s.next_run_utc) /\ parse_as_utc(s.next_run_utc) <= now'
       /\ reminders_tick_start
             => GoesOn(TickAt(list_reminders(NONE), now), rem_tick')
       /\ weather_tick_start
             => GoesOn(TickAt(list_weather_subs(NONE), now), wx_tick')
       /\ (\E o \in Outcomes : reminders_dispatch_done(o))
             => GoesOn(rem_tick, rem_tick')
       /\ (\E o \in Outcomes : weather_dispatch_done(o))
             => GoesOn(wx_tick, wx_tick')]_vars

\* The process was started again after it ended inside a delivery of each
\* loop, and the new process is delivering a reminder and an outlook again.
C14_Witness ==
    /\ ret.op = "Store" /\ ret.cut = <<TRUE, TRUE>>
    /\ rem_tick.pc = "deliver"
    /\ wx_tick.pc = "deliver"

\* C15: the result of _next_local_run is at hh:mi:00, strictly after
\* now_local, on now_local's day when that day's hh:mi is strictly after
\* now_local, and otherwise exactly one day (daily) or exactly seven days
\* (weekly) after now_local's day.
C15_RecurrenceRule ==
    probe.fn = "_next_local_run"
       => LET today == (probe.now_local \div DayLen) * DayLen
              candidate == today + probe.hh * HourLen + probe.mi * MinuteLen
              step == IF probe.cadence = "daily" THEN DayLen ELSE DaysPerWeek * DayLen
          IN /\ probe.val > probe.now_local
             /\ probe.val % DayLen = probe.hh * HourLen + probe.mi * MinuteLen
             /\ probe.val = IF candidate > probe.now_local THEN candidate ELSE candidate + step

\* _next_local_run was called with now_local exactly on the day's hh:mi, for
\* a weekly subscription, and returned the instant seven days later.
C15_Witness ==
    /\ probe.fn = "_next_local_run"
    /\ probe.cadence = "weekly"
    /\ probe.now_local % DayLen = probe.hh * HourLen + probe.mi * MinuteLen
    /\ probe.val = probe.now_local + DaysPerWeek * DayLen

\* C16: a second call of _next_local_run with the same hh, mi and cadence, at
\* the same now or at a later now that is still before the first result,
\* returns the first result.
C16_RecurrenceIdempotent ==
    (probe.fn = "_next_local_run" /\ probe.again.fn = "_next_local_run")
       => probe.again.val = probe.val

\* The record count of every table the migration writes.
Counts(w, n, r, s) == <<Cardinality(w), Cardinality(n), Cardinality(r), Cardinality(s)>>

C18_UnparsedNonFatal ==
    /\ [][(restart /\ json_file.state = "corrupt")
             => /\ UNCHANGED <<wallets, notes, reminders, weather_subs, json_file>>
                /\ ret'.op = "Store" /\ ret'.val = "unparsed"]_vars
    /\ json_file.state = "corrupt"
          => /\ ret.op = "Store" /\ ret.val = "unparsed"
             /\ notes = {} /\ reminders = {} /\ weather_subs = {}

\* The store was built again over a file that does not parse, and kept the
\* records it had.
C18_Witness ==
    /\ ret.op = "Store" /\ ret.val = "unparsed"
    /\ json_file.state = "corrupt"
    /\ notes # {}
    /\ reminders # {}

\* The (owner, id) keys of a table, and a row without its due time.
KeysOf(table) == {<<r.user_id, r.id>> : r \in table}
SubApartFromDue(s) == [f \in DOMAIN s \ {"next_run_utc"} |-> s[f]]

\* C19: a step of weather_scheduler (the start of a tick, the end of a
\* delivery that succeeded or failed: the steps that change the tick's
\* locals) leaves the set of (owner, id) subscriptions as it was and changes
\* no field of a subscription other than next_run_utc; the set changes only
\* in steps of add_weather_sub and remove_weather_sub, and a remove takes away
\* the caller's own key only.
C19_NeverDeletedByTick ==
    [][/\ wx_tick' # wx_tick
             => /\ KeysOf(weather_subs') = KeysOf(weather_subs)
                /\ {SubApartFromDue(s) : s \in weather_subs'}
                      = {SubApartFromDue(s) : s \in weather_subs}
       /\ KeysOf(weather_subs') # KeysOf(weather_subs)
             => \/ /\ ret'.op = "add_weather_sub"
                   /\ KeysOf(weather_subs') = KeysOf(weather_subs) \cup {<<ret'.uid, ret'.id>>}
                \/ /\ ret'.op = "remove_weather_sub"
                   /\ KeysOf(weather_subs') = KeysOf(weather_subs) \ {<<ret'.uid, ret'.id>>}]_vars

\* A tick is in its second delivery, and the subscription whose dispatch is
\* over is still stored.
C19_Witness ==
    /\ wx_tick.pc = "deliver"
    /\ Len(wx_tick.sent) = 2
    /\ wx_tick.sent[1] # wx_tick.sent[2]
    /\ wx_tick.sent[1] \in KeysOf(weather_subs)

\* A time of day as the commands describe it ("HH:MM 24h, HHMM, or
\* h:mma/pm"): an hour of the 24-hour clock, or an hour of the 12-hour clock
\* with am or pm, and a minute.
ValidTime(t) ==
    /\ t.match
    /\ t.mi \in 0 .. 59
    /\ IF t.ampm = "" THEN t.hh \in 0 .. 23 ELSE t.hh \in 1 .. 12
ValidDate(d) == d.match /\ d.mm \in 1 .. 12 /\ d.dd >= 1 /\ d.dd <= DaysInMonth[d.mm]
ValidOffset(o) == ~o.given \/ (o.match /\ o.oh <= 23 /\ o.om <= 59)
FiveDigitZip(z) == Len(z) = ZipLen /\ \A k \in 1 .. Len(z) : IsDigit(z[k])
DurationSeconds(d) == IF d.unit = "s" THEN d.n ELSE d.n * SecondsPerMinute
\* The instant a valid date, time and offset name.
InstantOf(d, t, o) ==
    datetime(d.yyyy, d.mm, d.dd, _parse_time(t).hh, t.mi).wall
        - (IF o.given THEN _parse_offset(o).off ELSE _chicago_tz_for)
StoreUnchanged == UNCHANGED <<notes, reminders, weather_subs, autodelete, wallets>>

\* C20: a create command with invalid input stores nothing: remind_at with a
\* date, time or offset that is not valid or with an instant not later than
\* now + 5 s, weather_subscribe with a time that is not valid or a ZIP that is
\* not five digits, autodelete_set with a duration that is not a number or
\* is outside 5 .. 86400 seconds.
C20_InvalidRejected ==
    [][/\ \A u \in Owners, ch \in Channels, d \in DateTexts, t \in TimeTexts, m \in Texts,
             o \in OffsetTexts, dm \in BOOLEAN :
            (/\ remind_at(u, ch, d, t, m, o, dm)
             /\ \/ ~ValidDate(d) \/ ~ValidTime(t) \/ ~ValidOffset(o)
                \/ InstantOf(d, t, o) <= now + PastMarginSeconds)
               => StoreUnchanged
       /\ \A u \in Owners, t \in TimeTexts, c \in Cadences, z \in ZipTexts :
            (/\ weather_subscribe_text(u, t, c, z, DefaultWeeklyDays)
             /\ ~ValidTime(t) \/ ~FiveDigitZip(z))
               => StoreUnchanged
       /\ \A u \in Owners, ch \in Channels, d \in DurationTexts :
            (/\ autodelete_set(u, ch, d)
             /\ \/ ~d.int_ok
                \/ DurationSeconds(d) < AutodeleteMinSeconds
                \/ DurationSeconds(d) > AutodeleteMaxSeconds)
               => StoreUnchanged]_vars

\* C21: an update_weather_sub call that is made without an owner, or for an
\* (owner, id) that has no row, changes no row and returns False, so that the
\* caller can tell it from an update that changed a row.  The calls are those
\* of weather_scheduler at the end of a dispatch.
C21_UpdateMissingFalse ==
    [][\A o \in Outcomes :
          (/\ weather_dispatch_done(o)
           /\ o = "fail" \/ RowsOfDelivered(weather_subs) = {})
             => /\ weather_subs' = weather_subs
                /\ update_weather_sub(DeliveredSub.id,
                                       IF o = "ok" THEN DeliveredSub.user_id ELSE 0,
                                       isoformat(wx_tick.now, 0)).val = "False"]_vars

\* The instants remind_at can be asked for with the texts it accepts.
AcceptedTexts ==
    {x \in DateTexts \X TimeTexts \X OffsetTexts :
        /\ _parse_date(x[1]).ok /\ _parse_time(x[2]).ok /\ _parse_offset(x[3]).ok
        /\ datetime(x[1].yyyy, x[1].mm, x[1].dd, 0, 0).ok}
AskedInstants == {InstantOf(x[1], x[2], x[3]) : x \in AcceptedTexts}
\* The time of day in Chicago of a stored text read as the schedulers read it.
LocalTimeOfDay(text) == to_local(parse_as_utc(text)) % DayLen

\* C22: every stored due time, read as the schedulers read it (the text's
\* wall-clock reading taken as UTC), is the instant its writer meant: a
\* subscription's next run falls on its hh:mi of Chicago time, and a reminder
\* that a command has just stored is due at now + minutes (remind_in) or at
\* the instant its date, time and offset name (remind_at).
C22_StoredAsUTC ==
    /\ [][(CommandStep /\ ret'.op = "add_reminder" /\ ret'.val = "id")
             => \E r \in reminders' \ reminders :
                   /\ parses(r.due_utc)
                   /\ \/ \E m \in RemindMinutes : parse_as_utc(r.due_utc) = now + m * MinuteLen
                      \/ parse_as_utc(r.due_utc) \in AskedInstants]_vars
    /\ [](\A s \in weather_subs :
             /\ parses(s.next_run_utc)
             /\ LocalTimeOfDay(s.next_run_utc) = s.hh * HourLen + s.mi * MinuteLen)

\* remind_at has stored a reminder for an instant an hour or more ahead, and
\* weather_scheduler has read the due time weather_subscribe stored and found
\* it due.
C22_Witness ==
    /\ \E r \in reminders : parse_as_utc(r.due_utc) \in AskedInstants
                              /\ parse_as_utc(r.due_utc) > now + HourLen
    /\ wx_tick.pc = "deliver"
    /\ RowsOfDelivered(weather_subs) # {}

\* C23: after an outlook was delivered, the subscription's stored next run is
\* to_utc(_next_local_run(now_local, hh, mi, cadence)) for the wall-clock now
\* of the reschedule, for daily and for weekly subscriptions.
C23_RescheduleIsNextLocalRun ==
    [][weather_dispatch_done("ok")
          => \A r \in RowsOfDelivered(weather_subs') :
                r.next_run_utc =
                   isoformat(to_utc(_next_local_run(to_local(now), DeliveredSub.hh,
                                                    DeliveredSub.mi, DeliveredSub.cadence)), 0)]_vars

\* The (owner, id) keys of the items of a list that are due at now_utc, in
\* the order of the list.
IsDueAt(item, now_utc) == parses(DueOf(item)) /\ parse_as_utc(DueOf(item)) <= now_utc
RECURSIVE DueKeys(_, _)
DueKeys(items, now_utc) ==
    IF items = << >> THEN << >>
    ELSE (IF IsDueAt(Head(items), now_utc)
          THEN <<(<<Head(items).user_id, Head(items).id>>)>> ELSE << >>)
            \o DueKeys(Tail(items), now_utc)
\* The rows of a table whose due time is later than now_utc.
NotDue(table, now_utc) ==
    {r \in table : parses(DueOf(r)) /\ parse_as_utc(DueOf(r)) > now_utc}

\* C24: a step of a tick leaves every stored record whose due time is later
\* than the tick's now as it is, and when a tick is over it has handed to
\* delivery exactly the records of its list with due <= now, each once, and
\* no other.
C24_DueFilter ==
    [][/\ reminders_tick_start
             => /\ reminders' = reminders
                /\ rem_tick'.pc = "idle" => DueKeys(list_reminders(NONE), now) = << >>
       /\ weather_tick_start
             => /\ weather_subs' = weather_subs
                /\ wx_tick'.pc = "idle" => DueKeys(list_weather_subs(NONE), now) = << >>
       /\ (\E o \in Outcomes : reminders_dispatch_done(o))
             => /\ NotDue(reminders, rem_tick.now) \subseteq reminders'
                /\ rem_tick'.pc = "idle"
                      => rem_tick.sent = DueKeys(rem_tick.items, rem_tick.now)
       /\ (\E o \in Outcomes : weather_dispatch_done(o))
             => /\ NotDue(weather_subs, wx_tick.now) \subseteq weather_subs'
                /\ wx_tick'.pc = "idle"
                      => wx_tick.sent = DueKeys(wx_tick.items, wx_tick.now)]_vars

\* C25 (the lifecycle half): the scheduler removes a reminder only when it is
\* due and only after a delivery attempt for that same reminder: the row a
\* tick deletes at the end of a dispatch is the reminder the tick handed to
\* delivery (same owner, id, text and due time), and it was due at the tick's
\* now.
C25_RemovedAfterOwnAttempt ==
    [][(\E o \in Outcomes : reminders_dispatch_done(o))
          => \A r \in reminders \ reminders' :
                /\ r.user_id = DeliveredReminder.user_id
                /\ r.id = DeliveredReminder.id
                /\ r.text = DeliveredReminder.text
                /\ r.due_utc = DeliveredReminder.due_utc
                /\ IsDueAt(r, rem_tick.now)]_vars

\* The legacy subscriptions, reminders and notes of the file that the store
\* does not hold.
LegacySubsLeftOut ==
    {k \in 1 .. Len(json_file.data.subs) :
        ~\E s \in weather_subs : /\ s.user_id = json_file.data.subs[k].user_id
                                 /\ s.zip = json_file.data.subs[k].zip
                                 /\ s.hh = json_file.data.subs[k].hh
                                 /\ s.mi = json_file.data.subs[k].mi}

\* C26: the migration is all-or-nothing: a startup never skips the migration
\* as already done (wallets hold rows, the legacy file is still in place)
\* while legacy subscriptions of the file are missing from the store.
C26_AllOrNothing ==
    (ret.op = "Store" /\ ret.val = "skipped") => LegacySubsLeftOut = {}

\* The files a start may find at DATA_PATH.
FilesAtDataPath == LegacyFiles \cup {[state |-> "legacy", data |-> PartialData]}

\* C27: when the wallets table holds a row, the migration is a no-op: a start
\* changes no table and leaves the legacy file in place, and so would a start
\* on the same store with any other file at DATA_PATH.
C27_MigratedIsNoOp ==
    /\ [][(restart /\ wallets # {})
             => UNCHANGED <<wallets, notes, reminders, weather_subs, json_file>>]_vars
    /\ [](wallets # {}
             => \A f \in FilesAtDataPath :
                   LET db == Db(wallets, notes, reminders, weather_subs)
                       m == _maybe_migrate_from_json(db, f)
                   IN m.db = db /\ m.file = f /\ m.val \notin Raises)

\* A start skipped the migration on a store with a wallet and a note of a
\* user, with a legacy file in place whose subscriptions the store lacks.
C27_Witness ==
    /\ ret.op = "Store" /\ ret.val = "skipped"
    /\ wallets # {}
    /\ notes # {}
    /\ json_file.state = "legacy"
    /\ Len(json_file.data.subs) > 0
    /\ weather_subs = {}

\* The ids an owner's records have in a table, and the places of the owner's
\* records in a list of the legacy file.
IdsOf(table, u) == {r.id : r \in {x \in table : x.user_id = u}}
PlacesOf(list, u) == {k \in 1 .. Len(list) : list[k].user_id = u}
\* (due time, text) of a reminder is not after that of another, for due times
\* that can be read.
DueTextNotAfter(a, b) ==
    (parses(a.due_utc) /\ parses(b.due_utc))
        => \/ parse_as_utc(a.due_utc) < parse_as_utc(b.due_utc)
           \/ /\ parse_as_utc(a.due_utc) = parse_as_utc(b.due_utc)
              /\ TextRank(a.text) <= TextRank(b.text)

\* C28: after the legacy file was migrated, every owner's n legacy reminders
\* are in the store under the ids 1..n, in ascending order of (due time,
\* text), each with the due time and text it had in the file; every owner's m
\* legacy subscriptions are there under the ids 1..m, and the k notes under
\* the ids 1..k in the order of the file.
C28_MigrationRekeys ==
    json_file.state = "renamed"
        => LET data == json_file.data IN
           /\ \A u \in Owners :
                 /\ IdsOf(reminders, u) = 1 .. Cardinality(PlacesOf(data.reminders, u))
                 /\ Cardinality({r \in reminders : r.user_id = u})
                       = Cardinality(PlacesOf(data.reminders, u))
                 /\ \A a, b \in {r \in reminders : r.user_id = u} :
                       a.id < b.id => DueTextNotAfter(a, b)
                 /\ \A k \in PlacesOf(data.reminders, u) :
                       Cardinality({r \in reminders : /\ r.user_id = u
                                                      /\ r.due_utc = str_text(data.reminders[k].due_utc)
                                                      /\ r.text = data.reminders[k].text})
                         = Cardinality({j \in PlacesOf(data.reminders, u) :
                                           /\ data.reminders[j].due_utc = data.reminders[k].due_utc
                                           /\ data.reminders[j].text = data.reminders[k].text})
                 /\ IdsOf(weather_subs, u) = 1 .. Cardinality(PlacesOf(data.subs, u))
                 /\ Cardinality({x \in weather_subs : x.user_id = u})
                       = Cardinality(PlacesOf(data.subs, u))
                 /\ \A k \in PlacesOf(data.subs, u) :
                       Cardinality({x \in weather_subs : /\ x.user_id = u
                                                         /\ x.hh = data.subs[k].hh
                                                         /\ x.mi = data.subs[k].mi})
                         = Cardinality({j \in PlacesOf(data.subs, u) :
                                           /\ data.subs[j].hh = data.subs[k].hh
                                           /\ data.subs[j].mi = data.subs[k].mi})
           /\ \A e \in 1 .. Len(data.notes) :
                 /\ IdsOf(notes, data.notes[e].user_id) = 1 .. Len(data.notes[e].texts)
                 /\ \A n \in notes :
                       n.user_id = data.notes[e].user_id => n.text = data.notes[e].texts[n.id]
           /\ \A n \in notes : \E e \in 1 .. Len(data.notes) : n.user_id = data.notes[e].user_id

\* A migrated file held an owner's reminders with the later (due time, text)
\* first: the store holds them under the ids 1 and 2 in the other order; and an
\* owner's two subscriptions are stored under the ids 1 and 2.
C28_Witness ==
    /\ json_file.state = "renamed"
    /\ Len(json_file.data.reminders) = 2
    /\ json_file.data.reminders[1].user_id = json_file.data.reminders[2].user_id
    /\ DueBefore(json_file.data.reminders[2], json_file.data.reminders[1])
    /\ \E a, b \in reminders :
          /\ a.id = 1 /\ b.id = 2
          /\ a.user_id = b.user_id
          /\ a.due_utc = json_file.data.reminders[2].due_utc
          /\ a.text = json_file.data.reminders[2].text
          /\ b.due_utc = json_file.data.reminders[1].due_utc
    /\ \E u \in Owners : IdsOf(weather_subs, u) = 1 .. 2

\* A step of a tick of one of the two loops.
TickStep ==
    \/ reminders_tick_start
    \/ weather_tick_start
    \/ \E o \in Outcomes : reminders_dispatch_done(o) \/ weather_dispatch_done(o)

\* C29: the store is built, its migration included, before any tick runs: a
\* start leaves no loop running and no tick in flight, a loop runs and a tick
\* steps only after the last construction of the store returned, and no step
\* of a tick coincides with a migration.
C29_StartupOrdering ==
    /\ [][restart => /\ ~is_running(rem_task') /\ ~is_running(wx_task')
                     /\ rem_tick'.pc = "idle" /\ wx_tick'.pc = "idle"]_vars
    /\ [][TickStep => /\ ret.op = "Store" /\ ret.val \notin Raises
                      /\ UNCHANGED <<ret, json_file, wallets>>]_vars
    /\ []((is_running(rem_task) \/ is_running(wx_task)
              \/ rem_tick.pc # "idle" \/ wx_tick.pc # "idle")
             => (ret.op = "Store" /\ ret.val \notin Raises))

\* A tick delivers a reminder of a store whose start imported the legacy file.
C29_Witness ==
    /\ ret.op = "Store" /\ ret.val = "migrated"
    /\ json_file.state = "renamed"
    /\ rem_tick.pc = "deliver"
    /\ is_running(wx_task)

\* A step of a tick of reminders_scheduler, and one of weather_scheduler.
RemStep == reminders_tick_start \/ \E o \in Outcomes : reminders_dispatch_done(o)
WxStep == weather_tick_start \/ \E o \in Outcomes : weather_dispatch_done(o)

\* C30: the two loops own disjoint kinds: a step of reminders_scheduler
\* leaves the subscriptions and the weather tick as they are, a step of
\* weather_scheduler leaves the reminders and the reminder tick as they are,
\* and neither changes notes, autodelete settings, wallets or the legacy file;
\* a tick lists the records of its own kind only, reminders_scheduler only
\* deletes reminders and weather_scheduler keeps the keys of the
\* subscriptions.  So the steps of the two loops commute.
C30_DisjointKinds ==
    [][/\ RemStep => /\ UNCHANGED <<weather_subs, wx_tick, wx_task>>
                     /\ UNCHANGED <<notes, autodelete, wallets, json_file>>
                     /\ reminders' \subseteq reminders
                     /\ rem_tick'.pc # "idle" => rem_tick'.items = list_reminders(NONE)
                                                    \/ rem_tick'.items = rem_tick.items
       /\ WxStep => /\ UNCHANGED <<reminders, rem_tick, rem_task>>
                    /\ UNCHANGED <<notes, autodelete, wallets, json_file>>
                    /\ KeysOf(weather_subs') = KeysOf(weather_subs)
                    /\ wx_tick'.pc # "idle" => wx_tick'.items = list_weather_subs(NONE)
                                                  \/ wx_tick'.items = wx_tick.items]_vars

\* The two ticks are interleaved: each is inside a delivery, for records of
\* the same owner and id, and both records are stored.
C30_Witness ==
    /\ rem_tick.pc = "deliver"
    /\ wx_tick.pc = "deliver"
    /\ DeliveredReminder.user_id = DeliveredSub.user_id
    /\ DeliveredReminder.id = DeliveredSub.id
    /\ RowsOfDelivered(weather_subs) # {}
    /\ \E r \in reminders : r.user_id = DeliveredReminder.user_id /\ r.id = DeliveredReminder.id

\* C31: a reminder the owner created, while a delivery was awaited, under the
\* id of the reminder being delivered (the owner cancelled that one first) is
\* still in the store after the tick's delete that follows the delivery.
C31_NewReminderKept ==
    [][(\E o \in Outcomes : reminders_dispatch_done(o))
          => \A r \in reminders :
                (/\ r.user_id = DeliveredReminder.user_id
                 /\ r.id = DeliveredReminder.id
                 /\ r.due_utc # DeliveredReminder.due_utc)
                    => r \in reminders']_vars

\* C32: a cancelled reminder is never handed to delivery: whenever a tick of
\* reminders_scheduler goes into a delivery, the reminder it delivers is in the
\* store, under its owner and id and with its due time.
C32_CancelIsFinal ==
    [][(RemStep /\ rem_tick'.pc = "deliver")
          => \E r \in reminders' :
                /\ r.user_id = rem_tick'.items[rem_tick'.i].user_id
                /\ r.id = rem_tick'.items[rem_tick'.i].id
                /\ r.due_utc = rem_tick'.items[rem_tick'.i].due_utc]_vars

\* C33: the reschedule that follows a delivery of weather_scheduler brings back
\* no subscription the owner removed during the delivery, and leaves as it is
\* a subscription the owner created during the delivery under the id of the
\* delivered one (here: one of another cadence, hour or minute).
C33_NewSubscriptionKept ==
    [][(\E o \in Outcomes : weather_dispatch_done(o))
          => /\ KeysOf(weather_subs') \subseteq KeysOf(weather_subs)
             /\ \A s \in RowsOfDelivered(weather_subs) :
                   (\/ s.cadence # DeliveredSub.cadence
                    \/ s.hh # DeliveredSub.hh
                    \/ s.mi # DeliveredSub.mi)
                      => s \in weather_subs']_vars

\* C34: after /weather_subscriptions every subscription of the caller has, in
\* the store, a due time that parses and lies after now: what the command
\* recomputed for a missing, unparseable or past due time was persisted.
C34_ListingHeals ==
    [][(CommandStep /\ ret'.op = "list_weather_subs")
          => \A s \in weather_subs' :
                s.user_id = ret'.uid
                   => (parses(s.next_run_utc) /\ parse_as_utc(s.next_run_utc) > now)]_vars

\* C35: no wallet balance is ever negative.
C35_NeverNegative == \A u \in Owners : balance[u] >= 0

\* C36: a pay of amount a by a sender who holds at least a, to another user,
\* takes a from the sender and gives a to the recipient in one step, and the
\* sum of all balances is unchanged; a pay by a sender who holds less than a,
\* or to oneself, changes no balance.
C36_PayConserves ==
    [][\A u \in Owners, v \in Owners, a \in Amounts :
          pay(u, v, a)
             => IF u # v /\ balance[u] >= a
                THEN /\ balance' = [balance EXCEPT ![u] = @ - a, ![v] = @ + a]
                     /\ SumOf(balance', Owners) = SumOf(balance, Owners)
                     /\ ret'.val = "sent"
                ELSE /\ balance' = balance
                     /\ ret'.val = "refused"]_vars

\* A pay went through while a wager game of the sender was open.
C36_Witness ==
    /\ ret.op = "pay" /\ ret.val = "sent"
    /\ balance[ret.id] > 0
    /\ \E g \in games : g.user_id = ret.uid

====
